---- MODULE Spec2Model ----
(***************************************************************************)
(* Message orchestration and escalation engine of the WhatsApp fashion     *)
(* commerce backend: the retry/timeout decorator (app/utils/retry.py),     *)
(* the Redis session window (app/services/session_service.py), the         *)
(* escalation policy (app/services/escalation_service.py), the response    *)
(* generator (app/services/ai_service.py) and the webhook text turn        *)
(* (app/api/webhook.py).                                                   *)
(*                                                                         *)
(* Text is a sequence of one-character strings, so that str.lower(),       *)
(* the `in` substring test and the order-id regular expression are         *)
(* computed character by character as Python computes them.                *)
(***************************************************************************)
EXTENDS Integers, Sequences, FiniteSets, TLC

\* ------------------------------------------------------------------ text

\* str.lower() on one character (ASCII letters; the samples use no others)
LowerChar(c) ==
    CASE c = "A" -> "a" [] c = "B" -> "b" [] c = "C" -> "c" [] c = "D" -> "d"
      [] c = "E" -> "e" [] c = "F" -> "f" [] c = "G" -> "g" [] c = "H" -> "h"
      [] c = "I" -> "i" [] c = "J" -> "j" [] c = "K" -> "k" [] c = "L" -> "l"
      [] c = "M" -> "m" [] c = "N" -> "n" [] c = "O" -> "o" [] c = "P" -> "p"
      [] c = "Q" -> "q" [] c = "R" -> "r" [] c = "S" -> "s" [] c = "T" -> "t"
      [] c = "U" -> "u" [] c = "V" -> "v" [] c = "W" -> "w" [] c = "X" -> "x"
      [] c = "Y" -> "y" [] c = "Z" -> "z"
      [] OTHER -> c

\* str.upper() on one character
UpperChar(c) ==
    CASE c = "a" -> "A" [] c = "b" -> "B" [] c = "c" -> "C" [] c = "d" -> "D"
      [] c = "e" -> "E" [] c = "f" -> "F" [] c = "g" -> "G" [] c = "h" -> "H"
      [] c = "i" -> "I" [] c = "j" -> "J" [] c = "k" -> "K" [] c = "l" -> "L"
      [] c = "m" -> "M" [] c = "n" -> "N" [] c = "o" -> "O" [] c = "p" -> "P"
      [] c = "q" -> "Q" [] c = "r" -> "R" [] c = "s" -> "S" [] c = "t" -> "T"
      [] c = "u" -> "U" [] c = "v" -> "V" [] c = "w" -> "W" [] c = "x" -> "X"
      [] c = "y" -> "Y" [] c = "z" -> "Z"
      [] OTHER -> c

lower(s) == [i \in 1..Len(s) |-> LowerChar(s[i])]

upper(s) == [i \in 1..Len(s) |-> UpperChar(s[i])]

\* Python's `phrase in text` at one offset
MatchesAt(text, phrase, i) ==
    /\ i + Len(phrase) - 1 <= Len(text)
    /\ \A j \in 1..Len(phrase) : text[i + j - 1] = phrase[j]

\* Python's `phrase in text`
Contains(text, phrase) == \E i \in 1..(Len(text) + 1) : MatchesAt(text, phrase, i)

\* any(phrase in text for phrase in phrases)
AnyPhraseIn(phrases, text) == \E n \in 1..Len(phrases) : Contains(text, phrases[n])

Digits == {"0","1","2","3","4","5","6","7","8","9"}

escalation_phrases ==
    << <<"t","a","l","k"," ","t","o"," ","h","u","m","a","n">>   \* "talk to human"
     , <<"s","p","e","a","k"," ","t","o"," ","h","u","m","a","n">>   \* "speak to human"
     , <<"h","u","m","a","n"," ","a","g","e","n","t">>   \* "human agent"
     , <<"r","e","a","l"," ","p","e","r","s","o","n">>   \* "real person"
     , <<"c","u","s","t","o","m","e","r"," ","s","e","r","v","i","c","e">>   \* "customer service"
     , <<"s","u","p","p","o","r","t"," ","a","g","e","n","t">>   \* "support agent"
     , <<"t","a","l","k"," ","t","o"," ","s","o","m","e","o","n","e">>   \* "talk to someone"
     , <<"s","p","e","a","k"," ","t","o"," ","s","o","m","e","o","n","e">>   \* "speak to someone"
     , <<"r","e","p","r","e","s","e","n","t","a","t","i","v","e">>   \* "representative"
     , <<"h","e","l","p"," ","m","e"," ","p","l","e","a","s","e">>   \* "help me please"
     , <<"n","e","e","d"," ","h","e","l","p">>   \* "need help"
     , <<"a","g","e","n","t"," ","p","l","e","a","s","e">>   \* "agent please"
    >>

new_arrivals_phrases ==
    << <<"n","e","w"," ","a","r","r","i","v","a","l","s">>   \* "new arrivals"
     , <<"n","e","w","e","s","t">>   \* "newest"
     , <<"j","u","s","t"," ","i","n">>   \* "just in"
     , <<"l","a","t","e","s","t">>   \* "latest"
    >>

trending_phrases ==
    << <<"t","r","e","n","d","i","n","g">>   \* "trending"
     , <<"p","o","p","u","l","a","r">>   \* "popular"
     , <<"b","e","s","t"," ","s","e","l","l","e","r">>   \* "best seller"
     , <<"t","o","p"," ","r","a","t","e","d">>   \* "top rated"
    >>

sale_phrases ==
    << <<"s","a","l","e">>   \* "sale"
     , <<"d","i","s","c","o","u","n","t">>   \* "discount"
     , <<"c","l","e","a","r","a","n","c","e">>   \* "clearance"
     , <<"d","e","a","l">>   \* "deal"
    >>

uncertain_phrases ==
    << <<"i","'","m"," ","n","o","t"," ","s","u","r","e">>   \* "i'm not sure"
     , <<"i"," ","d","o","n","'","t"," ","k","n","o","w">>   \* "i don't know"
     , <<"i"," ","c","a","n","n","o","t">>   \* "i cannot"
     , <<"u","n","f","o","r","t","u","n","a","t","e","l","y">>   \* "unfortunately"
     , <<"i"," ","a","p","o","l","o","g","i","z","e">>   \* "i apologize"
    >>

NON_CLOTHING_KEYWORDS ==
    << <<"w","e","a","t","h","e","r">>   \* "weather"
     , <<"n","e","w","s">>   \* "news"
     , <<"p","o","l","i","t","i","c","s">>   \* "politics"
     , <<"s","p","o","r","t","s"," ","s","c","o","r","e">>   \* "sports score"
     , <<"r","e","c","i","p","e">>   \* "recipe"
     , <<"m","a","t","h">>   \* "math"
     , <<"c","a","l","c","u","l","a","t","e">>   \* "calculate"
     , <<"c","o","d","e">>   \* "code"
     , <<"p","r","o","g","r","a","m","m","i","n","g">>   \* "programming"
     , <<"t","r","a","n","s","l","a","t","e">>   \* "translate"
    >>

\* inbound message texts the model draws from
Messages ==
    { <<"O","R","D","-","2","0","2","4","-","0","0","1","2","3","4">>   \* "ORD-2024-001234"
    , <<"o","r","d","-","2","0","2","4","-","0","0","1","2","3","4"," ","n","e","e","d"," ","h","e","l","p">>   \* "ord-2024-001234 need help"
    , <<"N","e","w"," ","A","r","r","i","v","a","l","s">>   \* "New Arrivals"
    , <<"s","a","l","e"," ","n","e","e","d"," ","h","e","l","p">>   \* "sale need help"
    , <<"I"," ","w","a","n","t"," ","t","o"," ","t","a","l","k"," ","t","o"," ","a"," ","h","u","m","a","n">>   \* "I want to talk to a human"
    , <<"T","a","l","k"," ","t","o"," ","H","u","m","a","n">>   \* "Talk to Human"
    , <<"w","e","a","t","h","e","r">>   \* "weather"
    , <<"b","l","u","e"," ","d","r","e","s","s">>   \* "blue dress"
    , <<"P","o","p","u","l","a","r">>   \* "Popular"
    , <<"O","R","D","-","2","0","2","4","-","0","0","1","2","3">>   \* "ORD-2024-00123"
    , <<"w","e","a","t","h","e","r"," ","a","g","e","n","t"," ","p","l","e","a","s","e">>   \* "weather agent please"
    , <<"n","e","w","e","s","t"," ","d","e","a","l">>   \* "newest deal"
    , <<"O","R","D","-","2","0","2","4","-","0","0","1","2","3","4"," ","l","a","t","e","s","t">>   \* "ORD-2024-001234 latest"
    }

\* completion texts the model draws from
Responses ==
    { <<"Y","e","s",","," ","i","n"," ","b","l","u","e",".">>   \* "Yes, in blue."
    , <<"U","n","f","o","r","t","u","n","a","t","e","l","y"," ","n","o",".">>   \* "Unfortunately no."
    , <<"I","'","m"," ","n","o","t"," ","s","u","r","e">>   \* "I'm not sure"
    , <<"I"," ","D","O","N","'","T"," ","K","N","O","W">>   \* "I DON'T KNOW"
    , <<"I"," ","c","a","n"," ","n","o","t">>   \* "I can not"
    , <<>>   \* ""
    }

\* ------------------------------------------------- binary64 arithmetic
\* A Python float in [0, 2) is held exactly as <<hi, lo>>, the integer
\* hi * 2^28 + lo counting units of 2^-55; every literal below is the exact
\* value of the binary64 nearest to the decimal literal in the source.

LimbBase == 2^28

FloatLess(a, b) == a[1] < b[1] \/ (a[1] = b[1] /\ a[2] < b[2])

FloatMax(a, b) == IF FloatLess(a, b) THEN b ELSE a

FloatMin(a, b) == IF FloatLess(b, a) THEN b ELSE a

\* a - b before rounding (a >= b)
ExactDifference(a, b) ==
    IF a[2] >= b[2]
    THEN <<a[1] - b[1], a[2] - b[2]>>
    ELSE <<a[1] - b[1] - 1, a[2] + LimbBase - b[2]>>

\* spacing of binary64 values around d, in units of 2^-55
UnitInLastPlace(d) == IF d[1] >= 2^26 THEN 4 ELSE IF d[1] >= 2^25 THEN 2 ELSE 1

\* round to the nearest representable value, ties to even
RoundToNearestEven(d) ==
    LET u    == UnitInLastPlace(d)
        r    == d[2] % u
        q    == d[2] \div u
        down == <<d[1], d[2] - r>>
        raw  == d[2] - r + u
        up   == IF raw >= LimbBase THEN <<d[1] + 1, raw - LimbBase>> ELSE <<d[1], raw>>
    IN  IF 2 * r < u THEN down
        ELSE IF 2 * r > u THEN up
        ELSE IF q % 2 = 0 THEN down ELSE up

\* Python's a - b on floats with a >= b >= 0
FloatSub(a, b) == RoundToNearestEven(ExactDifference(a, b))

Float_0_0 == <<0, 0>>

Float_0_2 == <<26843545, 161061274>>

Float_0_45 == <<60397977, 161061274>>

Float_0_65 == <<87241523, 53687092>>

Float_0_69 == <<92610232, 85899344>>

Float_0_85 == <<114085068, 214748364>>

Float_0_95 == <<127506841, 161061272>>

Float_1_0 == <<134217728, 0>>

\* the binary64 just below 0.65, printed by Python as 0.6499999999999999
Float_0_65_pred == <<87241523, 53687088>>

CONFIDENCE_THRESHOLD == <<93952409, 161061272>>

\* the binary64 values next to the threshold
Float_0_7_pred == <<93952409, 161061268>>

Float_0_7_succ == <<93952409, 161061276>>

\* Optional values: None is the empty tuple, a present value x is <<x>>
None == <<>>

Some(x) == <<x>>

\* --------------------------------------------------------- intent tests

\* re.compile(r"ORD-\d{4}-\d{6}", re.IGNORECASE) matching at offset i
OrderIdMatchesAt(message, i) ==
    /\ i + 14 <= Len(message)
    /\ LowerChar(message[i]) = "o"
    /\ LowerChar(message[i + 1]) = "r"
    /\ LowerChar(message[i + 2]) = "d"
    /\ message[i + 3] = "-"
    /\ \A j \in 4..7 : message[i + j] \in Digits
    /\ message[i + 8] = "-"
    /\ \A j \in 9..14 : message[i + j] \in Digits

\* OrderService.extract_order_id: the first match, upper-cased, or None
extract_order_id(message) ==
    LET hits == {i \in 1..Len(message) : OrderIdMatchesAt(message, i)}
    IN  IF hits = {} THEN None
        ELSE LET first == CHOOSE i \in hits : \A j \in hits : i <= j
             IN  upper(SubSeq(message, first, first + 14))

\* ProductService.detect_browse_trigger
detect_browse_trigger(message) ==
    LET message_lower == lower(message)
    IN  IF AnyPhraseIn(new_arrivals_phrases, message_lower) THEN "new_arrivals"
        ELSE IF AnyPhraseIn(trending_phrases, message_lower) THEN "trending"
        ELSE IF AnyPhraseIn(sale_phrases, message_lower) THEN "sale"
        ELSE "None"

\* EscalationService.detect_escalation_request
detect_escalation_request(message) == AnyPhraseIn(escalation_phrases, lower(message))

\* AIService.is_clothing_related: False on a non-clothing keyword; every
\* other branch of the function returns True
is_clothing_related(message) == ~AnyPhraseIn(NON_CLOTHING_KEYWORDS, lower(message))

\* ----------------------------------------------------- escalation policy

ExplicitReason == <<"Customer requested human assistance">>

\* f"Low confidence score: {confidence_score:.2f}"; the rendering of the
\* number is kept as the score it renders
LowConfidenceReason(score) == <<"Low confidence score: ", score>>

\* should_escalate with `<=` in place of `<`
should_escalate_inclusive(confidence_score, explicit_request) ==
    IF explicit_request
    THEN <<TRUE, ExplicitReason>>
    ELSE IF confidence_score /= None /\ ~FloatLess(CONFIDENCE_THRESHOLD, confidence_score[1])
         THEN <<TRUE, LowConfidenceReason(confidence_score[1])>>
         ELSE <<FALSE, <<>> >>

\* should_escalate with the threshold comparison dropped: any score escalates
should_escalate_any_score(confidence_score, explicit_request) ==
    IF explicit_request THEN <<TRUE, ExplicitReason>>
    ELSE IF confidence_score /= None
         THEN <<TRUE, LowConfidenceReason(confidence_score[1])>>
         ELSE <<FALSE, <<>>>>

\* EscalationService.should_escalate -> <<should_escalate, reason>>
should_escalate(confidence_score, explicit_request) ==
    IF explicit_request
    THEN <<TRUE, ExplicitReason>>
    ELSE IF confidence_score /= None /\ FloatLess(confidence_score[1], CONFIDENCE_THRESHOLD)
         THEN <<TRUE, LowConfidenceReason(confidence_score[1])>>
         ELSE <<FALSE, <<>> >>

\* the confidence heuristic testing `response` without lower()
confidence_of_case_sensitive(context, response) ==
    LET base  == IF context /= <<>> THEN Float_0_85 ELSE Float_0_65
        hedge == AnyPhraseIn(uncertain_phrases, response)
        confidence == IF hedge THEN FloatSub(base, Float_0_2) ELSE base
    IN  FloatMax(Float_0_0, FloatMin(Float_1_0, confidence))

\* AIService.generate_response_with_confidence after generate_response
\* returned `response`: the confidence heuristic
\* the confidence starting from 0.85 whether or not there is a context
confidence_of_ignores_context(context, response) ==
    LET hedge == AnyPhraseIn(uncertain_phrases, lower(response))
        confidence == IF hedge THEN FloatSub(Float_0_85, Float_0_2) ELSE Float_0_85
    IN  FloatMax(Float_0_0, FloatMin(Float_1_0, confidence))

confidence_of(context, response) ==
    LET base  == IF context /= <<>> THEN Float_0_85 ELSE Float_0_65
        hedge == AnyPhraseIn(uncertain_phrases, lower(response))
        confidence == IF hedge THEN FloatSub(base, Float_0_2) ELSE base
    IN  FloatMax(Float_0_0, FloatMin(Float_1_0, confidence))

\* ------------------------------------------------------ retry decorator

\* isinstance(e, cls) for the exception classes that occur: the classes of
\* app/core/exceptions.py, httpx's ConnectError, and asyncio's
\* CancelledError, which derives from BaseException only
IsInstance(type, cls) ==
    CASE cls = "BaseException" -> TRUE
      [] cls = "Exception" -> type /= "CancelledError"
      [] cls = "BaseAppException" ->
            type \in {"BaseAppException", "ExternalAPIError", "WhatsAppAPIError",
                      "OpenAIError", "DatabaseError"}
      [] cls = "ExternalAPIError" ->
            type \in {"ExternalAPIError", "WhatsAppAPIError", "OpenAIError"}
      [] OTHER -> type = cls

\* `except exceptions as e` for a tuple of classes
Catches(classes, type) == \E cls \in classes : IsInstance(type, cls)

\* an exception object: its class and the class of its __cause__
Exc(type, cause) == [type |-> type, cause |-> cause]

NoException == Exc("None", "None")

\* what one awaited attempt of the wrapped function does
Returned(v) == [kind |-> "return", val |-> v, exc |-> NoException]

Raised(type, cause) == [kind |-> "raise", val |-> "None", exc |-> Exc(type, cause)]

TimedOut == [kind |-> "timeout", val |-> "None", exc |-> Exc("TimeoutError", "None")]

\* the wrapper's loop keeping the first failure instead of the last
RECURSIVE wrapper_loop_first_failure(_, _, _, _, _)
wrapper_loop_first_failure(max_attempts, classes, outs, attempt, last_exception) ==
    IF attempt > max_attempts
    THEN [kind  |-> "raise",
          val   |-> "None",
          exc   |-> IF last_exception /= NoException THEN last_exception
                    ELSE Exc("Exception", "None"),
          calls |-> attempt]
    ELSE LET o == outs[attempt + 1]
             kept == IF last_exception /= NoException THEN last_exception ELSE o.exc
         IN  IF o.kind = "return"
             THEN [kind |-> "return", val |-> o.val, exc |-> NoException,
                   calls |-> attempt + 1]
             ELSE IF o.kind = "timeout" \/ o.exc.type = "TimeoutError"
             THEN wrapper_loop_first_failure(max_attempts, classes, outs, attempt + 1, kept)
             ELSE IF Catches(classes, o.exc.type)
             THEN wrapper_loop_first_failure(max_attempts, classes, outs, attempt + 1, kept)
             ELSE [kind |-> "raise", val |-> "None", exc |-> o.exc,
                   calls |-> attempt + 1]

\* async_retry(...).wrapper: the for loop from `attempt` on.  outs[n] is
\* what the n-th awaited func(*args) does under asyncio.wait_for.
RECURSIVE wrapper_loop(_, _, _, _, _)
wrapper_loop(max_attempts, classes, outs, attempt, last_exception) ==
    IF attempt > max_attempts
    THEN \* raise last_exception or Exception(f"{func.__name__} failed")
         [kind  |-> "raise",
          val   |-> "None",
          exc   |-> IF last_exception /= NoException THEN last_exception
                    ELSE Exc("Exception", "None"),
          calls |-> attempt]
    ELSE LET o == outs[attempt + 1]
         IN  IF o.kind = "return"
             THEN [kind |-> "return", val |-> o.val, exc |-> NoException,
                   calls |-> attempt + 1]
             ELSE IF o.kind = "timeout" \/ o.exc.type = "TimeoutError"
             THEN wrapper_loop(max_attempts, classes, outs, attempt + 1, o.exc)
             ELSE IF Catches(classes, o.exc.type)
             THEN wrapper_loop(max_attempts, classes, outs, attempt + 1, o.exc)
             ELSE \* not caught: leaves the loop at once
                  [kind |-> "raise", val |-> "None", exc |-> o.exc,
                   calls |-> attempt + 1]

\* the wrapper looping over range(attempts) instead of range(attempts + 1)
wrapper_one_attempt_short(max_attempts, classes, outs) ==
    wrapper_loop(max_attempts - 1, classes, outs, 0, NoException)

\* one call of the decorated function
wrapper(max_attempts, classes, outs) ==
    wrapper_loop(max_attempts, classes, outs, 0, NoException)

\* the decorator's default `exceptions` argument
DefaultExceptions == {"Exception"}

Pending == [kind |-> "pending", val |-> "None", exc |-> NoException, calls |-> 0]

\* --------------------------------------------------------- session store

MAX_MESSAGES == 10

Roles == {"user", "assistant"}

\* json.dumps({"role": role, "content": content}): the stored string, kept
\* as its sequence of tokens
json_dumps(role, content) == <<"{", "role", role, "content", content, "}">>

IsJson(s) ==
    /\ Len(s) = 6
    /\ s[1] = "{" /\ s[2] = "role" /\ s[4] = "content" /\ s[6] = "}"

\* json.loads of a stored string that IsJson
json_loads(s) == [role |-> s[3], content |-> s[5]]

\* the last n elements of a list: Redis index range (-n, -1)
LastN(list, n) ==
    IF Len(list) <= n THEN list ELSE SubSeq(list, Len(list) - n + 1, Len(list))

\* the push made at the head of the list (LPUSH for RPUSH)
rpush_at_head(list, value) == <<value>> \o list

\* Redis RPUSH key value
rpush(list, value) == Append(list, value)

\* LTRIM key 0 MAX_MESSAGES-1: keeps the oldest entries instead of the newest
ltrim_keeps_oldest(list) ==
    IF Len(list) <= MAX_MESSAGES THEN list ELSE SubSeq(list, 1, MAX_MESSAGES)

\* Redis LTRIM key -MAX_MESSAGES -1
ltrim(list) == LastN(list, MAX_MESSAGES)

\* Redis LRANGE key 0 -1: the whole list
lrange_whole_list(list) == list

\* Redis LRANGE key -MAX_MESSAGES -1
lrange(list) == LastN(list, MAX_MESSAGES)

\* the loop of get_context over the strings LRANGE returned: entries that
\* do not parse are skipped
RECURSIVE parse_messages(_)
parse_messages(messages) ==
    IF messages = <<>> THEN <<>>
    ELSE IF IsJson(Head(messages))
         THEN <<json_loads(Head(messages))>> \o parse_messages(Tail(messages))
         ELSE parse_messages(Tail(messages))

\* SessionService.get_context when the store answers
get_context(list) == parse_messages(lrange(list))

\* SessionService.add_message as one call on <<list, ttl>>; fails_at names
\* the store call that raises ("none" when all three succeed)
add_message(list, ttl_of_key, role, content, fails_at) ==
    LET pushed  == rpush(list, json_dumps(role, content))
        trimmed == ltrim(pushed)
    IN  CASE fails_at = "rpush"  -> <<list, ttl_of_key>>
          [] fails_at = "ltrim"  -> <<pushed, ttl_of_key>>
          [] fails_at = "expire" -> <<trimmed, ttl_of_key>>
          [] OTHER               -> <<trimmed, "set">>

\* ------------------------------------------------------------ text turn

\* handle_text_message: which handler the text goes to, with a browse
\* trigger tested before the order id
route_browse_first(message) ==
    IF detect_browse_trigger(message) /= "None" THEN "catalog_browse"
    ELSE IF extract_order_id(message) /= None THEN "order_tracking"
    ELSE "process_text_message"

\* handle_text_message: which handler the text goes to
route(message) ==
    IF extract_order_id(message) /= None THEN "order_tracking"
    ELSE IF detect_browse_trigger(message) /= "None" THEN "catalog_browse"
    ELSE "process_text_message"

\* process_text_message: the branch taken before any collaborator is called
\* the non-clothing check made before the escalation check
branch_redirect_first(message) ==
    IF ~is_clothing_related(message) THEN "redirect"
    ELSE IF detect_escalation_request(message) THEN "escalation_request"
    ELSE "general_qa"

branch(message) ==
    IF detect_escalation_request(message) THEN "escalation_request"
    ELSE IF ~is_clothing_related(message) THEN "redirect"
    ELSE "general_qa"

\* the functions decorated with async_retry
WrappedOperations ==
    {"send_message", "download_media", "create_query_embedding", "search_knowledge_base",
     "search_by_embedding", "escalate_to_human", "generate_response",
     "analyze_clothing_image"}

\* the attempts argument of the decorator of op: retries after the first try
attempts_of(op) == 1

\* the longer timeout given to generate_response, not to escalate_to_human
timeout_of_generation(op) == IF op = "generate_response" THEN 5 ELSE 3

\* the timeout argument of the decorator of op, in seconds
timeout_of(op) == IF op = "escalate_to_human" THEN 5 ELSE 3

\* AIService.SYSTEM_PROMPT
SYSTEM_PROMPT == <<"SYSTEM_PROMPT">>

\* the message list with the context message added even for an empty context
build_messages_always_context(user_message, ctx, conversation_history) ==
    <<[role |-> "system", content |-> SYSTEM_PROMPT]>>
      \o <<[role |-> "system", content |-> <<"Relevant information:\n">> \o ctx]>>
      \o conversation_history
      \o <<[role |-> "user", content |-> user_message]>>

\* the message list generate_response builds for the completion
build_messages(user_message, ctx, conversation_history) ==
    <<[role |-> "system", content |-> SYSTEM_PROMPT]>>
      \o (IF ctx /= <<>>
          THEN <<[role |-> "system", content |-> <<"Relevant information:\n">> \o ctx]>>
          ELSE <<>>)
      \o conversation_history
      \o <<[role |-> "user", content |-> user_message]>>

\* generate_response: one attempt of the decorated function, given what the
\* completion collaborator does; any exception becomes OpenAIError from it
generate_response(completion) ==
    CASE completion.kind = "return" -> Returned(completion.val)
      [] completion.kind = "raise" -> Raised("OpenAIError", completion.exc.type)
      [] OTHER -> TimedOut

\* escalate_to_human raising for a status other than 200
escalate_to_human_raises_for_status(url_configured, post) ==
    IF ~url_configured THEN Returned("False")
    ELSE CASE post.kind = "return" ->
                (IF post.val = "200" THEN Returned("True")
                 ELSE Raised("HTTPStatusError", "None"))
           [] post.kind = "raise" -> Returned("False")
           [] OTHER -> TimedOut

\* escalate_to_human letting the exception of the POST through
escalate_to_human_raises(url_configured, post) ==
    IF ~url_configured THEN Returned("False")
    ELSE CASE post.kind = "return" -> Returned(IF post.val = "200" THEN "True" ELSE "False")
           [] post.kind = "raise" -> Raised(post.exc.type, "None")
           [] OTHER -> TimedOut

\* escalate_to_human: one attempt of the decorated function, given whether
\* the webhook URL is configured and what the POST does
escalate_to_human(url_configured, post) ==
    IF ~url_configured THEN Returned("False")
    ELSE CASE post.kind = "return" -> Returned(IF post.val = "200" THEN "True" ELSE "False")
           [] post.kind = "raise" -> Returned("False")
           [] OTHER -> TimedOut

\* WhatsAppService.send_message: one attempt of the decorated function
send_message(post) ==
    CASE post.kind = "return" ->
            IF post.val = "200" THEN Returned("ack") ELSE Raised("WhatsAppAPIError", "None")
      [] post.kind = "raise" -> Raised(post.exc.type, post.exc.cause)
      [] OTHER -> TimedOut

\* what an HTTP collaborator does with one request
HttpOutcomes == { Returned("200"), Returned("500"), Raised("ConnectError", "None"), TimedOut }

\* what the completion collaborator does with one request
CompletionOutcomes ==
    { Returned(r) : r \in Responses } \cup { Raised("APIError", "None"), TimedOut }

\* the kinds of the attempts a wrapper call made
\* what the webhook did in one attempt of escalate_to_human: the status
\* code, the exception of the POST, no answer within the timeout; without a
\* URL the POST is not made
PostMade(url_configured, post) ==
    IF ~url_configured THEN "not_called"
    ELSE CASE post.kind = "return" -> post.val
           [] post.kind = "raise" -> post.exc.type
           [] OTHER -> "timeout"

AttemptKinds(outs, calls) == [n \in 1..calls |-> outs[n].kind]

\* -------------------------------------------------------------- retrieval

\* knowledge base contents returned by the match_knowledge_base RPC
SizesDocument == [content |-> <<"S","i","z","e","s"," ","S","-","X","L">>]

ReturnsDocument == [content |-> <<"R","e","t","u","r","n","s"," ","3","0","d">>]

EmptyDocument == [content |-> <<>>]

\* result.data of one RPC: nothing, a document without content, one
\* document, several documents
DocumentLists ==
    { <<>>, <<EmptyDocument>>, <<SizesDocument>>,
      <<SizesDocument, EmptyDocument, ReturnsDocument>> }

\* what the embedding collaborator does with one request
EmbeddingOutcomes == { Returned("embedding"), Raised("APIError", "None"), TimedOut }

\* what supabase.rpc(...).execute() does with one request
RpcOutcomes == { Returned(d) : d \in DocumentLists } \cup { Raised("APIError", "None") }

\* "\n\n".join(parts)
RECURSIVE join(_)
join(parts) ==
    IF parts = <<>> THEN <<>>
    ELSE IF Len(parts) = 1 THEN parts[1]
    ELSE parts[1] \o <<"\n", "\n">> \o join(Tail(parts))

\* RAGService.format_context: the non-empty contents, in order, separated
\* by a blank line
format_context(documents) ==
    LET with_content == SelectSeq(documents, LAMBDA doc : doc.content /= <<>>)
    IN  join([i \in 1..Len(with_content) |-> with_content[i].content])

\* RAGService.create_query_embedding under async_retry(attempts=1): es[n] is
\* what the n-th embedding request does
\* create_query_embedding without its decorator: one request, no retry
create_query_embedding_undecorated(es) == wrapper(0, DefaultExceptions, es)

create_query_embedding(es) == wrapper(1, DefaultExceptions, es)

\* one attempt of RAGService.search_knowledge_base under the outer
\* asyncio.wait_for(timeout=3.0): es are the embedding requests of the inner
\* wrapper, rpc the vector search, overrun whether a second embedding request
\* that answers does so after the outer timeout.  The outer timeout runs from
\* before the first embedding request: it cancels the attempt when that
\* request takes its full 3.0 s, and when the second one does or overruns;
\* the cancellation is a CancelledError, which `except Exception` lets pass.
\* Every other failure is re-raised as DatabaseError from the cause.
search_knowledge_base_attempt(es, rpc, overrun) ==
    LET embedding == create_query_embedding(es)
        cancelled == \/ es[1].kind = "timeout"
                     \/ embedding.calls = 2 /\ (es[2].kind = "timeout" \/ overrun)
    IN  IF cancelled
        THEN [out |-> TimedOut, embeds |-> IF es[1].kind = "timeout" THEN 1 ELSE 2, rpcs |-> 0]
        ELSE IF embedding.kind = "raise"
        THEN [out |-> Raised("DatabaseError", embedding.exc.type),
              embeds |-> embedding.calls, rpcs |-> 0]
        ELSE IF rpc.kind = "return"
        THEN [out |-> Returned(rpc.val), embeds |-> embedding.calls, rpcs |-> 1]
        ELSE [out |-> Raised("DatabaseError", rpc.exc.type),
              embeds |-> embedding.calls, rpcs |-> 1]

\* what the collaborators do during one search_knowledge_base call: per
\* outer attempt the two embedding requests, the RPC and the overrun
SearchInputs ==
    [embedding : [1..2 -> [1..2 -> EmbeddingOutcomes]],
     rpc       : [1..2 -> RpcOutcomes],
     overrun   : [1..2 -> BOOLEAN]]

\* RAGService.search_knowledge_base under async_retry(attempts=1): the
\* wrapper's result and the requests made to the two collaborators
search_knowledge_base(input) ==
    LET attempt(n) == search_knowledge_base_attempt(input.embedding[n], input.rpc[n],
                                                    input.overrun[n])
        r == wrapper(1, DefaultExceptions, [n \in 1..2 |-> attempt(n).out])
    IN  [result |-> r,
         embeds |-> attempt(1).embeds + (IF r.calls = 2 THEN attempt(2).embeds ELSE 0),
         rpcs   |-> attempt(1).rpcs + (IF r.calls = 2 THEN attempt(2).rpcs ELSE 0)]

\* get_relevant_context letting the search error through
get_relevant_context_raises(search) ==
    IF search.kind = "return" THEN Returned(format_context(search.val))
    ELSE Raised(search.exc.type, search.exc.cause)

\* RAGService.get_relevant_context, given what search_knowledge_base did:
\* the formatted documents, or "" for anything `except Exception` catches
get_relevant_context(search) ==
    IF search.kind = "return" THEN Returned(format_context(search.val))
    ELSE IF Catches({"Exception"}, search.exc.type) THEN Returned(<<>>)
    ELSE Raised(search.exc.type, search.exc.cause)

\* ------------------------------------------------------------- variables

VARIABLES
    \* inputs and results of the pure policy functions
    confidence_score, explicit_request, context, response, decision, confidence,
    \* one call of a decorated function
    attempts, exceptions, outcomes, wrapper_result,
    \* one call of search_knowledge_base: what the collaborators do, the result
    search_input, search_result,
    \* the Redis lists and their TTLs, by conversation key
    store, ttl,
    \* the tasks using the session service: position and arguments; the
    \* result of the latest get_context and the number of reads made
    pc, call, context_result, reads,
    \* history of the session calls: turns pushed per key, whether every
    \* add_message on the key so far ran alone and completed, turns issued
    appended, undisturbed, issued,
    \* the clear_context calls made so far: key, store before and after
    cleared,
    \* one inbound text message going through handle_webhook: the text, the
    \* position in the handlers, the number of enclosing try blocks, the
    \* calls made so far, how the turn ended
    message, step, depth, events, outcome,
    \* settings.n8n_webhook_url is set; locals of the handlers
    url_configured, history, reply,
    \* the message list generate_response passed to the completion
    messages

varsPolicy == <<confidence_score, explicit_request, context, response, decision, confidence>>

varsRetry == <<attempts, exceptions, outcomes, wrapper_result, search_input, search_result>>

varsSession == <<store, ttl, pc, call, context_result, reads, appended, undisturbed, issued, cleared>>

varsTurn == <<message, step, depth, events, outcome, url_configured, history, reply, messages>>

vars == <<varsPolicy, varsRetry, varsSession, varsTurn>>

\* bounds of the model
MaxAttempts == 2

\* add_message calls started in one behaviour
MaxAdds == 2

\* get_context calls made in one behaviour
MaxReads == 1

\* clear_context calls in one behaviour
MaxClears == 2

FirstKey == "15550000001"

OtherKey == "15550000002"

Keys == {FirstKey, OtherKey}

Tasks == {"t1", "t2"}

\* window sizes the first key starts with: empty, one below capacity, full
InitialLengths == {0, MAX_MESSAGES - 1, MAX_MESSAGES}

\* confidence scores handed to should_escalate
ConfidenceInputs ==
    { None, Some(Float_0_0), Some(Float_0_45), Some(Float_0_65_pred), Some(Float_0_65),
      Some(Float_0_69), Some(Float_0_7_pred), Some(CONFIDENCE_THRESHOLD),
      Some(Float_0_7_succ), Some(Float_0_85), Some(Float_0_95), Some(Float_1_0) }

\* retrieved context handed to the generator: "" or one document
Contexts == { <<>>, <<"S","i","z","e","s"," ","S","-","X","L">> }

\* what one attempt of a decorated function can do
AttemptOutcomes ==
    { Returned("r1"), Returned("r2"), TimedOut,
      Raised("ConnectError", "None"), Raised("WhatsAppAPIError", "None"),
      Raised("CancelledError", "None") }

\* `exceptions` arguments: the default and a narrowed one
ExceptionSets == { DefaultExceptions, {"ExternalAPIError"} }

IdlePolicy ==
    /\ confidence_score = None
    /\ explicit_request = FALSE
    /\ context = <<>>
    /\ response = <<>>
    /\ decision = None
    /\ confidence = None

NoSearch == [result |-> Pending, embeds |-> 0, rpcs |-> 0]

IdleSearch ==
    /\ search_input = <<>>
    /\ search_result = NoSearch

IdleRetry ==
    /\ attempts = 0
    /\ exceptions = DefaultExceptions
    /\ outcomes = <<>>
    /\ wrapper_result = Pending
    /\ IdleSearch

NoCall == [key |-> "None", message |-> <<>>]

NoRead == [key |-> "None", done |-> FALSE, failed |-> FALSE, turns |-> <<>>,
           upto |-> 0, undisturbed |-> FALSE]

IdleSession ==
    /\ store = [k \in Keys |-> <<>>]
    /\ ttl = [k \in Keys |-> "none"]
    /\ pc = [t \in Tasks |-> "idle"]
    /\ call = [t \in Tasks |-> NoCall]
    /\ context_result = NoRead
    /\ reads = 0
    /\ appended = [k \in Keys |-> <<>>]
    /\ undisturbed = [k \in Keys |-> TRUE]
    /\ issued = 0
    /\ cleared = <<>>

IdleTurn ==
    /\ message = <<>>
    /\ step = "stopped"
    /\ depth = 0
    /\ events = <<>>
    /\ outcome = "none"
    /\ url_configured = FALSE
    /\ history = <<>>
    /\ reply = "None"
    /\ messages = <<>>

\* ---------------------------------------------- the policy functions

InitPolicy ==
    /\ confidence_score \in ConfidenceInputs
    /\ explicit_request \in BOOLEAN
    /\ context \in Contexts
    /\ response \in Responses
    /\ decision = None
    /\ confidence = None
    /\ IdleRetry
    /\ IdleSession
    /\ IdleTurn

ShouldEscalate ==
    /\ decision = None
    /\ decision' = should_escalate(confidence_score, explicit_request)
    /\ UNCHANGED <<confidence_score, explicit_request, context, response, confidence>>
    /\ UNCHANGED <<varsRetry, varsSession, varsTurn>>

GenerateResponseWithConfidence ==
    /\ confidence = None
    /\ confidence' = Some(confidence_of(context, response))
    /\ UNCHANGED <<confidence_score, explicit_request, context, response, decision>>
    /\ UNCHANGED <<varsRetry, varsSession, varsTurn>>

NextPolicy == ShouldEscalate \/ GenerateResponseWithConfidence

SpecPolicy == InitPolicy /\ [][NextPolicy]_vars

\* ---------------------------------------------- one decorated call

InitRetry ==
    /\ attempts \in 0..MaxAttempts
    /\ exceptions \in ExceptionSets
    /\ outcomes \in [1..(MaxAttempts + 1) -> AttemptOutcomes]
    /\ wrapper_result = Pending
    /\ IdleSearch
    /\ IdlePolicy
    /\ IdleSession
    /\ IdleTurn

CallWrapper ==
    /\ wrapper_result = Pending
    /\ wrapper_result' = wrapper(attempts, exceptions, outcomes)
    /\ UNCHANGED <<attempts, exceptions, outcomes, search_input, search_result>>
    /\ UNCHANGED <<varsPolicy, varsSession, varsTurn>>

NextRetry == CallWrapper

SpecRetry == InitRetry /\ [][NextRetry]_vars

\* ------------------------------------------- one knowledge base search

InitRetrieval ==
    /\ search_input \in SearchInputs
    /\ search_result = NoSearch
    /\ attempts = 0
    /\ exceptions = DefaultExceptions
    /\ outcomes = <<>>
    /\ wrapper_result = Pending
    /\ IdlePolicy
    /\ IdleSession
    /\ IdleTurn

\* await self.search_knowledge_base(query, limit=limit)
SearchKnowledgeBase ==
    /\ search_result = NoSearch
    /\ search_result' = search_knowledge_base(search_input)
    /\ UNCHANGED <<attempts, exceptions, outcomes, wrapper_result, search_input>>
    /\ UNCHANGED <<varsPolicy, varsSession, varsTurn>>

NextRetrieval == SearchKnowledgeBase

SpecRetrieval == InitRetrieval /\ [][NextRetrieval]_vars

\* ---------------------------------------------- the session service

\* process_text_message appends the user message, then the reply
RoleOf(n) == IF n % 2 = 1 THEN "user" ELSE "assistant"

DigitChar(d) ==
    CASE d = 0 -> "0" [] d = 1 -> "1" [] d = 2 -> "2" [] d = 3 -> "3" [] d = 4 -> "4"
      [] d = 5 -> "5" [] d = 6 -> "6" [] d = 7 -> "7" [] d = 8 -> "8" [] d = 9 -> "9"

\* the text of turn number n (below 100): its decimal digits
TurnText(n) == IF n < 10 THEN <<DigitChar(n)>> ELSE <<DigitChar(n \div 10), DigitChar(n % 10)>>

\* turns 1..n as add_message stores them
RECURSIVE StoredTurns(_)
StoredTurns(n) ==
    IF n = 0 THEN <<>> ELSE Append(StoredTurns(n - 1), json_dumps(RoleOf(n), TurnText(n)))

\* the text of the n-th add_message call of a behaviour, distinct from the
\* texts 1..MAX_MESSAGES of the turns stored before it
NewText(n) == TurnText(MAX_MESSAGES + n)

\* the first key holds a window written by earlier turns (its TTL set by
\* the last of them); the other key does not exist yet
InitSession ==
    /\ \E n \in InitialLengths :
          /\ store = [k \in Keys |-> IF k = FirstKey THEN StoredTurns(n) ELSE <<>>]
          /\ ttl = [k \in Keys |-> IF k = FirstKey /\ n > 0 THEN "set" ELSE "none"]
          /\ appended = [k \in Keys |-> IF k = FirstKey THEN StoredTurns(n) ELSE <<>>]
    /\ issued = 0
    /\ pc = [t \in Tasks |-> "idle"]
    /\ call = [t \in Tasks |-> NoCall]
    /\ context_result = NoRead
    /\ reads = 0
    /\ undisturbed = [k \in Keys |-> TRUE]
    /\ cleared = <<>>
    /\ IdlePolicy
    /\ IdleRetry
    /\ IdleTurn

AddInProgress(k) == \E t \in Tasks : pc[t] /= "idle" /\ call[t].key = k

\* add_message entered: key and JSON string built, nothing sent yet
BeginAddMessage(t, k) ==
    /\ pc[t] = "idle"
    /\ issued < MaxAdds
    /\ issued' = issued + 1
    /\ call' = [call EXCEPT ![t] =
          [key |-> k, message |-> json_dumps(RoleOf(issued + 1), NewText(issued + 1))]]
    /\ pc' = [pc EXCEPT ![t] = "rpush"]
    /\ undisturbed' = [undisturbed EXCEPT ![k] = @ /\ ~AddInProgress(k)]
    /\ UNCHANGED <<store, ttl, context_result, reads, appended>>
    /\ UNCHANGED <<cleared, varsPolicy, varsRetry, varsTurn>>

\* the push made under a key that leaves out the phone number
Rpush_shared_key(t) ==
    /\ pc[t] = "rpush"
    /\ store' = [store EXCEPT ![FirstKey] = rpush(@, call[t].message)]
    /\ appended' = [appended EXCEPT ![call[t].key] = Append(@, call[t].message)]
    /\ pc' = [pc EXCEPT ![t] = "ltrim"]
    /\ UNCHANGED <<ttl, call, context_result, reads, undisturbed, issued>>
    /\ UNCHANGED <<cleared, varsPolicy, varsRetry, varsTurn>>

\* await redis_client.rpush(key, message)
Rpush(t) ==
    /\ pc[t] = "rpush"
    /\ store' = [store EXCEPT ![call[t].key] = rpush(@, call[t].message)]
    /\ appended' = [appended EXCEPT ![call[t].key] = Append(@, call[t].message)]
    /\ pc' = [pc EXCEPT ![t] = "ltrim"]
    /\ UNCHANGED <<ttl, call, context_result, reads, undisturbed, issued>>
    /\ UNCHANGED <<cleared, varsPolicy, varsRetry, varsTurn>>

\* await redis_client.ltrim(key, -MAX_MESSAGES, -1)
Ltrim(t) ==
    /\ pc[t] = "ltrim"
    /\ store' = [store EXCEPT ![call[t].key] = ltrim(@)]
    /\ pc' = [pc EXCEPT ![t] = "expire"]
    /\ UNCHANGED <<ttl, call, context_result, reads, appended, undisturbed, issued>>
    /\ UNCHANGED <<cleared, varsPolicy, varsRetry, varsTurn>>

\* await redis_client.expire(key, TTL_SECONDS): sets the TTL of an
\* existing key, and add_message returns
Expire(t) ==
    /\ pc[t] = "expire"
    /\ ttl' = [ttl EXCEPT ![call[t].key] = IF store[call[t].key] /= <<>> THEN "set" ELSE @]
    /\ pc' = [pc EXCEPT ![t] = "idle"]
    /\ call' = [call EXCEPT ![t] = NoCall]
    /\ UNCHANGED <<store, context_result, reads, appended, undisturbed, issued>>
    /\ UNCHANGED <<cleared, varsPolicy, varsRetry, varsTurn>>

\* each store call in a try block of its own: after a failed call
\* add_message goes on with the next one
StoreCallFails_continues(t) ==
    /\ pc[t] \in {"rpush", "ltrim", "expire"}
    /\ undisturbed' = [undisturbed EXCEPT ![call[t].key] = FALSE]
    /\ pc' = [pc EXCEPT ![t] = CASE pc[t] = "rpush" -> "ltrim"
                                  [] pc[t] = "ltrim" -> "expire"
                                  [] OTHER -> "idle"]
    /\ call' = [call EXCEPT ![t] = IF pc[t] = "expire" THEN NoCall ELSE @]
    /\ UNCHANGED <<store, ttl, context_result, reads, appended, issued>>
    /\ UNCHANGED <<cleared, varsPolicy, varsRetry, varsTurn>>

\* add_message undoing its push when a later store call raises
StoreCallFails_rolls_back(t) ==
    /\ pc[t] \in {"rpush", "ltrim", "expire"}
    /\ undisturbed' = [undisturbed EXCEPT ![call[t].key] = FALSE]
    /\ store' = [store EXCEPT ![call[t].key] =
          IF pc[t] /= "rpush" /\ @ /= <<>> THEN SubSeq(@, 1, Len(@) - 1) ELSE @]
    /\ pc' = [pc EXCEPT ![t] = "idle"]
    /\ call' = [call EXCEPT ![t] = NoCall]
    /\ UNCHANGED <<ttl, context_result, reads, appended, issued>>
    /\ UNCHANGED <<cleared, varsPolicy, varsRetry, varsTurn>>

\* the store call the task is about to make raises: add_message logs the
\* error and returns without making the remaining calls
StoreCallFails(t) ==
    /\ pc[t] \in {"rpush", "ltrim", "expire"}
    /\ undisturbed' = [undisturbed EXCEPT ![call[t].key] = FALSE]
    /\ pc' = [pc EXCEPT ![t] = "idle"]
    /\ call' = [call EXCEPT ![t] = NoCall]
    /\ UNCHANGED <<store, ttl, context_result, reads, appended, issued>>
    /\ UNCHANGED <<cleared, varsPolicy, varsRetry, varsTurn>>

\* get_context: one LRANGE, then the parse loop
GetContext(t, k) ==
    /\ pc[t] = "idle"
    /\ reads < MaxReads
    /\ reads' = reads + 1
    /\ context_result' =
          [key |-> k, done |-> TRUE, failed |-> FALSE,
           turns |-> get_context(store[k]),
           upto |-> Len(appended[k]),
           undisturbed |-> undisturbed[k] /\ ~AddInProgress(k)]
    /\ UNCHANGED <<store, ttl, pc, call, appended, undisturbed, issued>>
    /\ UNCHANGED <<cleared, varsPolicy, varsRetry, varsTurn>>

\* get_context when LRANGE raises: the error is logged, [] returned
GetContextFails(t, k) ==
    /\ pc[t] = "idle"
    /\ reads < MaxReads
    /\ reads' = reads + 1
    /\ context_result' =
          [key |-> k, done |-> TRUE, failed |-> TRUE, turns |-> <<>>,
           upto |-> Len(appended[k]), undisturbed |-> FALSE]
    /\ UNCHANGED <<store, ttl, pc, call, appended, undisturbed, issued>>
    /\ UNCHANGED <<cleared, varsPolicy, varsRetry, varsTurn>>

\* clear_context: DEL key
ClearContext(t, k) ==
    /\ pc[t] = "idle"
    /\ store[k] /= <<>>
    /\ store' = [store EXCEPT ![k] = <<>>]
    /\ ttl' = [ttl EXCEPT ![k] = "none"]
    /\ undisturbed' = [undisturbed EXCEPT ![k] = FALSE]
    /\ UNCHANGED <<pc, call, context_result, reads, appended, issued>>
    /\ UNCHANGED <<cleared, varsPolicy, varsRetry, varsTurn>>

\* TTL_SECONDS passed since the key's TTL was last set: Redis drops the key
KeyExpires(k) ==
    /\ ttl[k] = "set"
    /\ store' = [store EXCEPT ![k] = <<>>]
    /\ ttl' = [ttl EXCEPT ![k] = "none"]
    /\ undisturbed' = [undisturbed EXCEPT ![k] = FALSE]
    /\ UNCHANGED <<pc, call, context_result, reads, appended, issued>>
    /\ UNCHANGED <<cleared, varsPolicy, varsRetry, varsTurn>>

NextSession ==
    \/ \E t \in Tasks, k \in Keys : BeginAddMessage(t, k)
    \/ \E t \in Tasks : Rpush(t)
    \/ \E t \in Tasks : Ltrim(t)
    \/ \E t \in Tasks : Expire(t)
    \/ \E t \in Tasks : StoreCallFails(t)
    \/ \E t \in Tasks, k \in Keys : GetContext(t, k)
    \/ \E t \in Tasks, k \in Keys : GetContextFails(t, k)
    \/ \E t \in Tasks, k \in Keys : ClearContext(t, k)
    \/ \E k \in Keys : KeyExpires(k)

SpecSession == InitSession /\ [][NextSession]_vars

\* ------------------------------------------- clearing a conversation

\* what the store does with the DEL of clear_context
DeleteOutcomes == {"deleted", "raises"}

\* clear_context with LPOP in the place of DEL
clear_context_drops_oldest(list, deadline, delete) ==
    IF delete = "raises"
    THEN [list |-> list, ttl |-> deadline, raised |-> FALSE]
    ELSE [list |-> IF list = <<>> THEN <<>> ELSE Tail(list),
          ttl |-> IF Len(list) <= 1 THEN "none" ELSE deadline, raised |-> FALSE]

\* clear_context on a key holding list with TTL deadline: DEL drops the
\* key with its TTL (a missing key is not an error); an exception of the
\* store is logged and swallowed
clear_context(list, deadline, delete) ==
    IF delete = "raises"
    THEN [list |-> list, ttl |-> deadline, raised |-> FALSE]
    ELSE [list |-> <<>>, ttl |-> "none", raised |-> FALSE]

\* both keys hold a window written by earlier turns, or do not exist
InitClear ==
    /\ \E n \in InitialLengths, m \in InitialLengths :
          /\ store = [k \in Keys |-> IF k = FirstKey THEN StoredTurns(n) ELSE StoredTurns(m)]
          /\ ttl = [k \in Keys |->
                IF (IF k = FirstKey THEN n ELSE m) > 0 THEN "set" ELSE "none"]
          /\ appended = store
    /\ issued = 0
    /\ pc = [t \in Tasks |-> "idle"]
    /\ call = [t \in Tasks |-> NoCall]
    /\ context_result = NoRead
    /\ reads = 0
    /\ undisturbed = [k \in Keys |-> TRUE]
    /\ cleared = <<>>
    /\ IdlePolicy
    /\ IdleRetry
    /\ IdleTurn

\* await session_service.clear_context(phone)
ClearContextCall(k, delete) ==
    /\ Len(cleared) < MaxClears
    /\ LET r == clear_context(store[k], ttl[k], delete)
       IN  /\ store' = [store EXCEPT ![k] = r.list]
           /\ ttl' = [ttl EXCEPT ![k] = r.ttl]
           /\ cleared' = Append(cleared,
                 [key |-> k, delete |-> delete, raised |-> r.raised,
                  before |-> [store |-> store, ttl |-> ttl],
                  after |-> [store |-> store', ttl |-> ttl']])
    /\ UNCHANGED <<pc, call, context_result, reads, appended, undisturbed, issued>>
    /\ UNCHANGED <<varsPolicy, varsRetry, varsTurn>>

NextClear == \E k \in Keys, delete \in DeleteOutcomes : ClearContextCall(k, delete)

SpecClear == InitClear /\ [][NextClear]_vars

\* ---------------------------------------------- one inbound text message

customer_phone == FirstKey

sessionTasks == <<pc, call, context_result, reads, appended, undisturbed, issued, cleared>>

policyInputs == <<confidence_score, explicit_request>>

generation == <<context, response, confidence, decision>>

\* a call made during the turn: the operation, its argument or result, whether
\* it returned normally, and, for the completion and the notification, what
\* each attempt made under the retry wrapper did
Event(op, arg, ok, kinds) == [op |-> op, arg |-> arg, ok |-> ok, attempts |-> kinds]

\* handle_webhook has entered its try block and calls handle_text_message,
\* which enters its own; the session window was written by earlier turns
InitTurn ==
    /\ message \in Messages
    /\ step = "received"
    /\ depth = 2
    /\ events = <<>>
    /\ outcome = "running"
    /\ url_configured \in BOOLEAN
    /\ history = <<>>
    /\ reply = "None"
    /\ messages = <<>>
    /\ \E n \in InitialLengths :
          /\ store = [k \in Keys |-> IF k = customer_phone THEN StoredTurns(n) ELSE <<>>]
          /\ ttl = [k \in Keys |-> IF k = customer_phone /\ n > 0 THEN "set" ELSE "none"]
          /\ appended = [k \in Keys |-> IF k = customer_phone THEN StoredTurns(n) ELSE <<>>]
    /\ pc = [t \in Tasks |-> "idle"]
    /\ call = [t \in Tasks |-> NoCall]
    /\ context_result = NoRead
    /\ reads = 0
    /\ undisturbed = [k \in Keys |-> TRUE]
    /\ issued = 0
    /\ cleared = <<>>
    /\ IdlePolicy
    /\ IdleRetry

\* except clauses that only log the error: the exception is swallowed and
\* the handlers return without sending anything
Caught_logs_only(d) ==
    step' = "stopped" /\ depth' = 0 /\ outcome' = "replied"

\* an exception raised where d try blocks enclose the raising statement: the
\* innermost except clause runs next (it sends the fallback menu), or, with
\* no try block left, the exception leaves handle_webhook
Caught(d) ==
    IF d = 0
    THEN step' = "stopped" /\ depth' = 0 /\ outcome' = "raised"
    ELSE step' = "send_fallback" /\ depth' = d - 1 /\ outcome' = outcome

\* handle_text_message, lines 153-168: order id, then browse trigger, then
\* the AI service; the two handlers enter a try block of their own
HandleTextMessage ==
    /\ step = "received"
    /\ step' = CASE route(message) = "order_tracking" -> "get_order"
                 [] route(message) = "catalog_browse" -> "get_products"
                 [] OTHER -> "process_text_message"
    /\ depth' = IF route(message) = "process_text_message" THEN depth ELSE depth + 1
    /\ events' = Append(events, Event("route", route(message), TRUE, <<>>))
    /\ UNCHANGED <<messages, message, outcome, url_configured, history, reply>>
    /\ UNCHANGED <<store, ttl, sessionTasks, varsPolicy, varsRetry>>

\* handle_order_tracking: order_service.get_order_by_id returns the order,
\* or None when there is none or the lookup raised
GetOrderById ==
    /\ step = "get_order"
    /\ \E found \in BOOLEAN :
          /\ reply' = IF found THEN "order_status" ELSE "order_not_found"
          /\ events' = Append(events, Event("get_order_by_id", reply', TRUE, <<>>))
    /\ step' = "order_send"
    /\ UNCHANGED <<messages, message, depth, outcome, url_configured, history>>
    /\ UNCHANGED <<store, ttl, sessionTasks, varsPolicy, varsRetry>>

\* handle_catalog_browse: the product query returns products, or [] when
\* there are none or the query raised
GetProducts ==
    /\ step = "get_products"
    /\ \E found \in BOOLEAN :
          /\ reply' = IF found THEN "catalog_list" ELSE "empty_category"
          /\ events' = Append(events, Event("get_products", reply', TRUE, <<>>))
    /\ step' = "browse_send"
    /\ UNCHANGED <<messages, message, depth, outcome, url_configured, history>>
    /\ UNCHANGED <<store, ttl, sessionTasks, varsPolicy, varsRetry>>

\* whatsapp_service.send_text / send_message with the turn's reply, under
\* async_retry(attempts=1); an exhausted wrapper raises into the try block
\* the reply's send undoing the session appends when it fails
SendReply_rolls_back ==
    /\ step \in {"order_send", "browse_send", "qa_send"}
    /\ \E posts \in [1..2 -> HttpOutcomes] :
          LET outs == [n \in 1..2 |-> send_message(posts[n])]
              r == wrapper(1, DefaultExceptions, outs)
          IN  /\ events' = Append(events,
                     Event("send_message", reply, r.kind = "return", <<>>))
              /\ IF r.kind = "return"
                 THEN /\ depth' = depth
                      /\ IF step = "qa_send"
                         THEN step' = "stopped" /\ outcome' = "replied"
                         ELSE /\ step' = IF step = "order_send" THEN "order_log" ELSE "browse_log"
                              /\ outcome' = outcome
                 ELSE Caught(depth)
              /\ store' = IF r.kind = "return" THEN store
                          ELSE [store EXCEPT ![customer_phone] = appended[customer_phone]]
    /\ UNCHANGED <<messages, message, url_configured, history, reply>>
    /\ UNCHANGED <<ttl, sessionTasks, varsPolicy, varsRetry>>

SendReply ==
    /\ step \in {"order_send", "browse_send", "qa_send"}
    /\ \E posts \in [1..2 -> HttpOutcomes] :
          LET outs == [n \in 1..2 |-> send_message(posts[n])]
              r == wrapper(1, DefaultExceptions, outs)
          IN  /\ events' = Append(events,
                     Event("send_message", reply, r.kind = "return", <<>>))
              /\ IF r.kind = "return"
                 THEN /\ depth' = depth
                      /\ IF step = "qa_send"
                         THEN step' = "stopped" /\ outcome' = "replied"
                         ELSE /\ step' = IF step = "order_send" THEN "order_log" ELSE "browse_log"
                              /\ outcome' = outcome
                 ELSE Caught(depth)
    /\ UNCHANGED <<messages, message, url_configured, history, reply>>
    /\ UNCHANGED <<store, ttl, sessionTasks, varsPolicy, varsRetry>>

\* log_message without its try block: a failed insert raises into the
\* handler's except clause
LogMessage_raises ==
    /\ step \in {"order_log", "browse_log", "qa_log"}
    /\ \E ok \in BOOLEAN :
          /\ events' = Append(events, Event("log_message", "None", ok, <<>>))
          /\ IF ~ok THEN Caught(depth)
             ELSE /\ depth' = depth
                  /\ IF step = "qa_log"
                     THEN step' = "qa_send" /\ outcome' = outcome
                     ELSE step' = "stopped" /\ outcome' = "replied"
    /\ UNCHANGED <<messages, message, url_configured, history, reply>>
    /\ UNCHANGED <<store, ttl, sessionTasks, varsPolicy, varsRetry>>

\* log_message in a handle_text_message whose `return` after the order and
\* browse handlers is missing: the text goes on to the AI service
LogMessage_no_return ==
    /\ step \in {"order_log", "browse_log", "qa_log"}
    /\ \E ok \in BOOLEAN :
          events' = Append(events, Event("log_message", "None", ok, <<>>))
    /\ step' = IF step = "qa_log" THEN "qa_send" ELSE "process_text_message"
    /\ depth' = IF step = "qa_log" THEN depth ELSE depth - 1
    /\ UNCHANGED <<messages, message, outcome, url_configured, history, reply>>
    /\ UNCHANGED <<store, ttl, sessionTasks, varsPolicy, varsRetry>>

\* conversation_service.log_message: the insert succeeds, or raises and the
\* error is logged and None returned
LogMessage ==
    /\ step \in {"order_log", "browse_log", "qa_log"}
    /\ \E ok \in BOOLEAN :
          events' = Append(events, Event("log_message", "None", ok, <<>>))
    /\ IF step = "qa_log"
       THEN step' = "qa_send" /\ outcome' = outcome
       ELSE step' = "stopped" /\ outcome' = "replied"
    /\ UNCHANGED <<messages, message, depth, url_configured, history, reply>>
    /\ UNCHANGED <<store, ttl, sessionTasks, varsPolicy, varsRetry>>

\* process_text_message, lines 167-179: explicit escalation request, then
\* the clothing check
ProcessTextMessage ==
    /\ step = "process_text_message"
    /\ step' = CASE branch(message) = "escalation_request" -> "escalation_history"
                 [] branch(message) = "redirect" -> "qa_log"
                 [] OTHER -> "history"
    /\ reply' = IF branch(message) = "redirect" THEN "redirect_message" ELSE reply
    /\ events' = Append(events, Event("branch", branch(message), TRUE, <<>>))
    /\ UNCHANGED <<messages, message, depth, outcome, url_configured, history>>
    /\ UNCHANGED <<store, ttl, sessionTasks, varsPolicy, varsRetry>>

\* get_context without its try block: a failed store call raises into
\* handle_text_message's except clause
GetHistory_raises ==
    /\ step \in {"escalation_history", "history"}
    /\ \E ok \in BOOLEAN :
          /\ events' = Append(events, Event("get_context", "None", ok, <<>>))
          /\ IF ok
             THEN /\ history' = get_context(store[customer_phone])
                  /\ step' = IF step = "history" THEN "relevant_context" ELSE "escalate"
                  /\ decision' = IF step = "history" THEN decision ELSE <<TRUE, ExplicitReason>>
                  /\ UNCHANGED <<depth, outcome>>
             ELSE /\ Caught(depth)
                  /\ UNCHANGED <<history, decision>>
    /\ UNCHANGED <<messages, message, url_configured, reply>>
    /\ UNCHANGED <<context, response, confidence, policyInputs>>
    /\ UNCHANGED <<store, ttl, sessionTasks, varsRetry>>

\* session_service.get_context(customer_phone): the window, or [] when the
\* store call raised
GetHistory ==
    /\ step \in {"escalation_history", "history"}
    /\ \E ok \in BOOLEAN :
          /\ history' = IF ok THEN get_context(store[customer_phone]) ELSE <<>>
          /\ events' = Append(events, Event("get_context", "None", ok, <<>>))
    /\ step' = IF step = "history" THEN "relevant_context" ELSE "escalate"
    /\ decision' = IF step = "history" THEN decision ELSE <<TRUE, ExplicitReason>>
    /\ UNCHANGED <<messages, message, depth, outcome, url_configured, reply>>
    /\ UNCHANGED <<context, response, confidence, policyInputs>>
    /\ UNCHANGED <<store, ttl, sessionTasks, varsRetry>>

\* rag_service.get_relevant_context(message): search_knowledge_base, then
\* the formatted documents, or "" when the search raised
GetRelevantContext ==
    /\ step = "relevant_context"
    /\ \E input \in SearchInputs :
          LET search == search_knowledge_base(input).result
              r == get_relevant_context(search)
          IN  /\ events' = Append(events,
                     Event("get_relevant_context",
                           IF search.kind = "return"
                           THEN (IF search.val = <<>> THEN "no_documents" ELSE "documents")
                           ELSE search.exc.type,
                           search.kind = "return", <<>>))
              /\ IF r.kind = "return"
                 THEN /\ context' = r.val
                      /\ step' = "generate"
                      /\ UNCHANGED <<depth, outcome>>
                 ELSE /\ Caught(depth)
                      /\ UNCHANGED context
    /\ UNCHANGED <<messages, message, url_configured, history, reply>>
    /\ UNCHANGED <<response, confidence, decision, policyInputs>>
    /\ UNCHANGED <<store, ttl, sessionTasks, varsRetry>>

\* generate_response_with_confidence: generate_response under
\* async_retry(attempts=1), the confidence heuristic, then should_escalate
\* process_text_message returning a reply of its own when the completion
\* failed, in the place of letting the error reach handle_text_message
GenerateResponse_answers_on_failure ==
    /\ step = "generate"
    /\ \E completions \in [1..2 -> CompletionOutcomes] :
          LET outs == [n \in 1..2 |-> generate_response(completions[n])]
              r == wrapper(attempts_of("generate_response"), DefaultExceptions, outs)
          IN  IF r.kind = "return"
              THEN /\ response' = r.val
                   /\ confidence' = Some(confidence_of(context, r.val))
                   /\ decision' = should_escalate(confidence', FALSE)
                   /\ events' = Append(events,
                          Event("generate_response", "None", TRUE, AttemptKinds(outs, r.calls)))
                   /\ step' = IF decision'[1] THEN "escalate" ELSE "add_user"
                   /\ UNCHANGED <<depth, outcome>>
              ELSE /\ events' = Append(events,
                          Event("generate_response", r.exc.type, FALSE, AttemptKinds(outs, r.calls)))
                   /\ step' = "qa_log"
                   /\ UNCHANGED <<depth, outcome, response, confidence, decision>>
    /\ messages' = build_messages(message, context, history)
    /\ UNCHANGED <<message, url_configured, history, reply>>
    /\ UNCHANGED <<context, policyInputs>>
    /\ UNCHANGED <<store, ttl, sessionTasks, varsRetry>>

GenerateResponse ==
    /\ step = "generate"
    /\ \E completions \in [1..2 -> CompletionOutcomes] :
          LET outs == [n \in 1..2 |-> generate_response(completions[n])]
              r == wrapper(attempts_of("generate_response"), DefaultExceptions, outs)
          IN  IF r.kind = "return"
              THEN /\ response' = r.val
                   /\ confidence' = Some(confidence_of(context, r.val))
                   /\ decision' = should_escalate(confidence', FALSE)
                   /\ events' = Append(events,
                          Event("generate_response", "None", TRUE, AttemptKinds(outs, r.calls)))
                   /\ step' = IF decision'[1] THEN "escalate" ELSE "add_user"
                   /\ UNCHANGED <<depth, outcome>>
              ELSE /\ events' = Append(events,
                          Event("generate_response", r.exc.type, FALSE, AttemptKinds(outs, r.calls)))
                   /\ Caught(depth)
                   /\ UNCHANGED <<response, confidence, decision>>
    /\ messages' = build_messages(message, context, history)
    /\ UNCHANGED <<message, url_configured, history, reply>>
    /\ UNCHANGED <<context, policyInputs>>
    /\ UNCHANGED <<store, ttl, sessionTasks, varsRetry>>

\* _handle_escalation handing the event over again after a False
HandleEscalation_resends ==
    /\ step = "escalate"
    /\ \E posts \in [1..2 -> HttpOutcomes] :
          LET outs == [n \in 1..2 |-> escalate_to_human(url_configured, posts[n])]
              r == wrapper(attempts_of("escalate_to_human"), DefaultExceptions, outs)
          IN  IF r.kind = "return"
              THEN /\ events' = Append(events,
                          Event("escalate_to_human", r.val, TRUE,
                                [n \in 1..r.calls |-> PostMade(url_configured, posts[n])]))
                   /\ reply' = IF decision = <<TRUE, ExplicitReason>>
                               THEN "escalation_message" ELSE "response_with_notice"
                   /\ step' = IF r.val = "False" /\ ~\E i \in 1..Len(events) :
                                                       events[i].op = "escalate_to_human"
                               THEN "escalate" ELSE "qa_log"
                   /\ UNCHANGED <<depth, outcome>>
              ELSE /\ events' = Append(events,
                          Event("escalate_to_human", r.exc.type, FALSE,
                                [n \in 1..r.calls |-> PostMade(url_configured, posts[n])]))
                   /\ Caught(depth)
                   /\ UNCHANGED reply
    /\ UNCHANGED <<messages, message, url_configured, history>>
    /\ UNCHANGED <<store, ttl, sessionTasks, varsPolicy, varsRetry>>

\* the notice added to the response only when the notification was delivered
HandleEscalation_notice_if_delivered ==
    /\ step = "escalate"
    /\ \E posts \in [1..2 -> HttpOutcomes] :
          LET outs == [n \in 1..2 |-> escalate_to_human(url_configured, posts[n])]
              r == wrapper(attempts_of("escalate_to_human"), DefaultExceptions, outs)
          IN  IF r.kind = "return"
              THEN /\ events' = Append(events,
                          Event("escalate_to_human", r.val, TRUE,
                                [n \in 1..r.calls |-> PostMade(url_configured, posts[n])]))
                   /\ reply' = IF decision = <<TRUE, ExplicitReason>>
                               THEN "escalation_message"
                               ELSE IF r.val = "True" THEN "response_with_notice"
                               ELSE "response"
                   /\ step' = "qa_log"
                   /\ UNCHANGED <<depth, outcome>>
              ELSE /\ events' = Append(events,
                          Event("escalate_to_human", r.exc.type, FALSE,
                                [n \in 1..r.calls |-> PostMade(url_configured, posts[n])]))
                   /\ Caught(depth)
                   /\ UNCHANGED reply
    /\ UNCHANGED <<messages, message, url_configured, history>>
    /\ UNCHANGED <<store, ttl, sessionTasks, varsPolicy, varsRetry>>

\* _handle_escalation: escalate_to_human under async_retry(attempts=1);
\* process_text_message then returns the acknowledgment (explicit request)
\* or the response with the notice (low confidence)
HandleEscalation ==
    /\ step = "escalate"
    /\ \E posts \in [1..2 -> HttpOutcomes] :
          LET outs == [n \in 1..2 |-> escalate_to_human(url_configured, posts[n])]
              r == wrapper(attempts_of("escalate_to_human"), DefaultExceptions, outs)
          IN  IF r.kind = "return"
              THEN /\ events' = Append(events,
                          Event("escalate_to_human", r.val, TRUE,
                                [n \in 1..r.calls |-> PostMade(url_configured, posts[n])]))
                   /\ reply' = IF decision = <<TRUE, ExplicitReason>>
                               THEN "escalation_message" ELSE "response_with_notice"
                   /\ step' = "qa_log"
                   /\ UNCHANGED <<depth, outcome>>
              ELSE /\ events' = Append(events,
                          Event("escalate_to_human", r.exc.type, FALSE,
                                [n \in 1..r.calls |-> PostMade(url_configured, posts[n])]))
                   /\ Caught(depth)
                   /\ UNCHANGED reply
    /\ UNCHANGED <<messages, message, url_configured, history>>
    /\ UNCHANGED <<store, ttl, sessionTasks, varsPolicy, varsRetry>>

\* session_service.add_message for the user message, then for the response;
\* a store call that raises ends that add_message quietly
AddMessage ==
    /\ step \in {"add_user", "add_assistant"}
    /\ \E fails_at \in {"none", "rpush", "ltrim", "expire"} :
          LET role == IF step = "add_user" THEN "user" ELSE "assistant"
              text == IF step = "add_user" THEN message ELSE response
              after == add_message(store[customer_phone], ttl[customer_phone],
                                   role, text, fails_at)
          IN  /\ store' = [store EXCEPT ![customer_phone] = after[1]]
              /\ ttl' = [ttl EXCEPT ![customer_phone] = after[2]]
              /\ events' = Append(events, Event("add_message", role, fails_at = "none", <<>>))
    /\ step' = IF step = "add_user" THEN "add_assistant" ELSE "qa_log"
    /\ reply' = IF step = "add_user" THEN reply ELSE "response"
    /\ UNCHANGED <<messages, message, depth, outcome, url_configured, history>>
    /\ UNCHANGED <<sessionTasks, varsPolicy, varsRetry>>

\* an except clause: whatsapp_service.send_message(build_fallback_menu(...))
\* under async_retry(attempts=1); nothing in the clause catches its failure
SendFallbackMenu ==
    /\ step = "send_fallback"
    /\ \E posts \in [1..2 -> HttpOutcomes] :
          LET outs == [n \in 1..2 |-> send_message(posts[n])]
              r == wrapper(1, DefaultExceptions, outs)
          IN  /\ events' = Append(events,
                     Event("send_message", "fallback_menu", r.kind = "return", <<>>))
              /\ IF r.kind = "return"
                 THEN step' = "stopped" /\ outcome' = "fallback" /\ depth' = depth
                 ELSE Caught(depth)
    /\ UNCHANGED <<messages, message, url_configured, history, reply>>
    /\ UNCHANGED <<store, ttl, sessionTasks, varsPolicy, varsRetry>>

\* a session store call that is never answered: the Redis client is created
\* without a socket timeout and get_context and add_message await it outside
\* any async_retry wrapper, so the turn stays suspended on the call
SessionStoreNeverResponds ==
    /\ step \in {"escalation_history", "history", "add_user", "add_assistant"}
    /\ events' = Append(events,
           Event("awaiting",
                 IF step \in {"add_user", "add_assistant"} THEN "add_message" ELSE "get_context",
                 FALSE, <<>>))
    /\ step' = "awaiting"
    /\ UNCHANGED <<messages, message, depth, outcome, url_configured, history, reply>>
    /\ UNCHANGED <<store, ttl, sessionTasks, varsPolicy, varsRetry>>

Next ==
    \/ HandleTextMessage
    \/ GetOrderById
    \/ GetProducts
    \/ SendReply
    \/ LogMessage
    \/ ProcessTextMessage
    \/ GetHistory
    \/ GetRelevantContext
    \/ GenerateResponse
    \/ HandleEscalation
    \/ AddMessage
    \/ SendFallbackMenu
    \/ SessionStoreNeverResponds

Spec == InitTurn /\ [][Next]_vars

\* the event loop resumes every coroutine whose awaited call has completed
SpecLive == InitTurn /\ [][Next]_vars /\ WF_vars(Next)

\* ------------------------------------------------------------ properties

\* the send_message calls of the turn, in order
Sends == SelectSeq(events, LAMBDA e : e.op = "send_message")

Made(op) == \E i \in 1..Len(events) : events[i].op = op

\* C1: for every inbound text and every combination of collaborator failures,
\* handle_text_message and the enclosing handle_webhook finish without an
\* exception reaching their caller.
C1_NoExceptionEscapes == outcome /= "raised"

\* both attempts of generate_response raised
CompletionRaisedEveryAttempt ==
    \E i \in 1..Len(events) :
        /\ events[i].op = "generate_response"
        /\ events[i].attempts = <<"raise", "raise">>

\* C2: when the completion collaborator raises on every attempt of a
\* GeneralQA turn, the turn ends in Fallback and the outbound messaging
\* collaborator is invoked exactly once, with the fallback menu.
C2_FallbackSentExactlyOnce ==
    (step = "stopped" /\ CompletionRaisedEveryAttempt) =>
        /\ outcome = "fallback"
        /\ Len(Sends) = 1
        /\ Sends[1].arg = "fallback_menu"

\* escalate_to_human did not deliver: it returned False or the wrapper raised
NotificationFailed ==
    \E i \in 1..Len(events) :
        /\ events[i].op = "escalate_to_human"
        /\ (~events[i].ok \/ events[i].arg = "False")

\* C3: in a turn where escalation fires, any failure of the notification
\* (non-200 response, transport exception, the wrapper's timeout on every
\* attempt) is swallowed: with the outbound collaborator working, the
\* customer receives the escalation acknowledgment or the generated reply,
\* never the fallback menu.
C3_NotificationFailureSwallowed ==
    (/\ step = "stopped"
     /\ NotificationFailed
     /\ \A i \in 1..Len(Sends) : Sends[i].ok) =>
        /\ \A i \in 1..Len(Sends) : Sends[i].arg /= "fallback_menu"
        /\ \E i \in 1..Len(Sends) :
              Sends[i].arg \in {"escalation_message", "response_with_notice"}

HasOrderId == \E i \in 1..Len(message) : OrderIdMatchesAt(message, i)

HasBrowseTrigger ==
    AnyPhraseIn(new_arrivals_phrases \o trending_phrases \o sale_phrases, lower(message))

HasEscalationPhrase == AnyPhraseIn(escalation_phrases, lower(message))

\* the operations a turn made after routing
OpsAfterRouting == {events[i].op : i \in 2..Len(events)}

\* C8: routing is first-match-wins in the order order identifier, browse
\* trigger, escalation phrase, general QA: a text with an order identifier is
\* an order lookup and a text with a browse trigger (and no order identifier)
\* a catalog browse, whatever escalation phrase it also contains, and neither
\* of them posts a notification.
C8_FirstMatchWins ==
    events /= <<>> =>
        /\ events[1].op = "route"
        /\ HasOrderId => events[1].arg = "order_tracking"
        /\ (~HasOrderId /\ HasBrowseTrigger) => events[1].arg = "catalog_browse"
        /\ (~HasOrderId /\ ~HasBrowseTrigger) => events[1].arg = "process_text_message"
        /\ events[1].arg = "order_tracking" =>
              OpsAfterRouting \subseteq {"get_order_by_id", "send_message", "log_message"}
        /\ events[1].arg = "catalog_browse" =>
              OpsAfterRouting \subseteq {"get_products", "send_message", "log_message"}
        /\ (events[1].arg = "process_text_message" /\ Len(events) >= 2) =>
              /\ events[2].op = "branch"
              /\ HasEscalationPhrase <=> events[2].arg = "escalation_request"

\* a text with an order identifier and an escalation phrase, answered
C8_Witness ==
    /\ HasOrderId
    /\ HasEscalationPhrase
    /\ step = "stopped"
    /\ outcome = "replied"
    /\ Len(Sends) = 1
    /\ Sends[1].arg \in {"order_status", "order_not_found"}


\* C6: for every conversation key, in every reachable state of the session
\* store (between the push, trim and expire steps of add_message, after a
\* failed step, under concurrent calls) the stored window holds at most
\* MAX_MESSAGES = 10 turns.
C6_WindowNeverExceedsMax == \A k \in Keys : Len(store[k]) <= MAX_MESSAGES

\* C7: after a sequence of add_message calls on one key that each ran alone
\* and completed, get_context returns the appended turns in insertion order,
\* oldest first, and beyond MAX_MESSAGES appended turns exactly the oldest are
\* missing: the result is the last MAX_MESSAGES appended turns, decoded.
C7_ContextIsLastAppended ==
    LET r == context_result
    IN  (r.done /\ ~r.failed /\ r.undisturbed) =>
            LET all == SubSeq(appended[r.key], 1, r.upto)
                kept == LastN(all, MAX_MESSAGES)
            IN  /\ Len(r.turns) = Len(kept)
                /\ \A i \in 1..Len(kept) : r.turns[i] = json_loads(kept[i])

\* a read after more than MAX_MESSAGES turns were appended one by one, of
\* which at least two by add_message calls of this behaviour
C7_Witness ==
    /\ context_result.done
    /\ ~context_result.failed
    /\ context_result.undisturbed
    /\ context_result.upto >= MAX_MESSAGES + 2
    /\ Len(context_result.turns) = MAX_MESSAGES


\* an attempt that the wrapper answers by trying again
FailedRetryably(o) ==
    \/ o.kind = "timeout"
    \/ o.kind = "raise" /\ (o.exc.type = "TimeoutError" \/ Catches(exceptions, o.exc.type))

\* the wrapper ran out of attempts: every one of the attempts + 1 failed
Exhausted ==
    /\ wrapper_result.kind = "raise"
    /\ wrapper_result.calls = attempts + 1
    /\ \A n \in 1..(attempts + 1) : FailedRetryably(outcomes[n])

\* an attempt raised an exception outside `exceptions`, which leaves the loop
Escaped ==
    /\ wrapper_result.kind = "raise"
    /\ wrapper_result.calls \in 1..(attempts + 1)
    /\ outcomes[wrapper_result.calls].kind = "raise"
    /\ ~FailedRetryably(outcomes[wrapper_result.calls])
    /\ wrapper_result.exc = outcomes[wrapper_result.calls].exc
    /\ \A n \in 1..(wrapper_result.calls - 1) : FailedRetryably(outcomes[n])

\* at most attempts + 1 invocations; a return is the first successful
\* attempt's value and nothing is invoked after it
ReturnsFirstSuccess ==
    /\ wrapper_result.calls <= attempts + 1
    /\ wrapper_result.kind = "return" =>
          /\ wrapper_result.calls >= 1
          /\ outcomes[wrapper_result.calls].kind = "return"
          /\ wrapper_result.val = outcomes[wrapper_result.calls].val
          /\ \A n \in 1..(wrapper_result.calls - 1) : FailedRetryably(outcomes[n])

\* C4 as stated: a call of the wrapper invokes the operation at most
\* attempts + 1 times, returns the first successful attempt's result, and
\* raises only after all attempts + 1 attempts failed by timeout or by an
\* exception of the configured set.
C4_RaisesOnlyWhenExhausted ==
    wrapper_result.kind /= "pending" =>
        /\ ReturnsFirstSuccess
        /\ wrapper_result.kind = "raise" => Exhausted

\* C4 amended: as above, but the wrapper raises either after all
\* attempts + 1 attempts failed by timeout or by a configured exception, or
\* at once when an attempt raises an exception outside the configured set,
\* which is propagated unchanged and not retried.
C4_RaisesWhenExhaustedOrEscaped ==
    wrapper_result.kind /= "pending" =>
        /\ ReturnsFirstSuccess
        /\ wrapper_result.kind = "raise" => (Exhausted \/ Escaped)

\* a call with one retry whose first attempt timed out and whose second returned
C4_Witness ==
    /\ attempts = 1
    /\ outcomes[1].kind = "timeout"
    /\ outcomes[2].kind = "return"
    /\ wrapper_result.kind = "return"
    /\ wrapper_result.calls = 2

\* C5 as stated: when every attempt fails, the failure surfaced is an
\* ExternalCallFailed (ExternalAPIError) error wrapping the last attempt's
\* underlying cause.
C5_SurfacesWrappedFailure ==
    Exhausted =>
        /\ IsInstance(wrapper_result.exc.type, "ExternalAPIError")
        /\ wrapper_result.exc.cause = outcomes[attempts + 1].exc.type

\* C5 amended: when every attempt fails, the failure surfaced is the last
\* attempt's own failure, re-raised as it is (asyncio.TimeoutError for a
\* timeout, the raised exception otherwise), without a wrapper around it.
C5_SurfacesLastFailure ==
    Exhausted => wrapper_result.exc = outcomes[attempts + 1].exc

\* two failed attempts with different failures, the last one a timeout
C5_Witness ==
    /\ attempts = 1
    /\ Exhausted
    /\ outcomes[1].kind = "raise"
    /\ outcomes[2].kind = "timeout"
    /\ wrapper_result.exc.type = "TimeoutError"

\* C9: should_escalate returns (true, explicit reason) whenever explicit is
\* true; otherwise (true, low-confidence reason) exactly when a confidence is
\* present and strictly below 0.70; otherwise (false, "").  0.70 does not
\* escalate, 0.69 does, an absent confidence does not.
C9_ShouldEscalateRule ==
    decision /= None =>
        /\ explicit_request => decision = <<TRUE, ExplicitReason>>
        /\ (~explicit_request /\ confidence_score = None) => decision = <<FALSE, <<>> >>
        /\ (~explicit_request /\ confidence_score /= None) =>
              \/ /\ FloatLess(confidence_score[1], CONFIDENCE_THRESHOLD)
                 /\ decision = <<TRUE, LowConfidenceReason(confidence_score[1])>>
              \/ /\ ~FloatLess(confidence_score[1], CONFIDENCE_THRESHOLD)
                 /\ decision = <<FALSE, <<>> >>
        /\ (~explicit_request /\ confidence_score = Some(CONFIDENCE_THRESHOLD)) => ~decision[1]
        /\ (~explicit_request /\ confidence_score = Some(Float_0_69)) => decision[1]

\* the boundary: confidence exactly 0.70, no explicit request, decided
C9_Witness ==
    /\ decision /= None
    /\ ~explicit_request
    /\ confidence_score = Some(CONFIDENCE_THRESHOLD)

\* the reply contains a hedging phrase, compared case-insensitively
Hedges == AnyPhraseIn(uncertain_phrases, lower(response))

WithinUnitInterval(x) == ~FloatLess(x, Float_0_0) /\ ~FloatLess(Float_1_0, x)

\* C10 as stated: the confidence is 0.85 for context and no hedge, 0.65 for
\* context and hedge, 0.65 for no context and no hedge, 0.45 for no context
\* and hedge, and always within [0, 1].
C10_ConfidenceTable ==
    confidence /= None =>
        /\ (context /= <<>> /\ ~Hedges) => confidence[1] = Float_0_85
        /\ (context /= <<>> /\ Hedges) => confidence[1] = Float_0_65
        /\ (context = <<>> /\ ~Hedges) => confidence[1] = Float_0_65
        /\ (context = <<>> /\ Hedges) => confidence[1] = Float_0_45
        /\ WithinUnitInterval(confidence[1])

\* C10 amended: as above, except that for context and hedge the confidence
\* is the binary64 result of 0.85 - 0.2, which is 0.6499999999999999, the
\* value just below 0.65 (still below the 0.70 threshold).
C10_ConfidenceTableBinary64 ==
    confidence /= None =>
        /\ (context /= <<>> /\ ~Hedges) => confidence[1] = Float_0_85
        /\ (context /= <<>> /\ Hedges) => confidence[1] = Float_0_65_pred
        /\ (context = <<>> /\ ~Hedges) => confidence[1] = Float_0_65
        /\ (context = <<>> /\ Hedges) => confidence[1] = Float_0_45
        /\ WithinUnitInterval(confidence[1])

\* context present and an upper-case hedging reply, scored
C10_Witness ==
    /\ confidence /= None
    /\ context /= <<>>
    /\ Hedges
    /\ ~AnyPhraseIn(uncertain_phrases, response)

\* ------------------------------------------- properties of the text turn

\* the text of end-to-end scenario C
IWantToTalkToAHuman ==
    <<"I"," ","w","a","n","t"," ","t","o"," ","t","a","l","k"," ","t","o"," ","a"," ","h","u","m","a","n">>

\* the calls of one operation made so far, in order
Calls(op) == SelectSeq(events, LAMBDA e : e.op = op)

\* C11: the inbound text "I want to talk to a human" is classified as an
\* escalation request: the completion collaborator is not invoked, and the
\* turn that replies has invoked the notification collaborator once and
\* sends the fixed escalation acknowledgment.
C11_TalkToAHumanEscalates ==
    message = IWantToTalkToAHuman =>
        /\ \A i \in 1..Len(events) :
              events[i].op = "branch" => events[i].arg = "escalation_request"
        /\ Calls("generate_response") = <<>>
        /\ (step = "stopped" /\ outcome = "replied") =>
              /\ Len(Calls("escalate_to_human")) = 1
              /\ Len(Sends) = 1
              /\ Sends[1].arg = "escalation_message"

\* the text is an escalation request that reaches the AI service
IsEscalationRequest == ~HasOrderId /\ ~HasBrowseTrigger /\ HasEscalationPhrase

\* the text is a general question: no order identifier, no browse trigger,
\* no escalation phrase
IsGeneralQA == ~HasOrderId /\ ~HasBrowseTrigger /\ ~HasEscalationPhrase

\* C12: within a turn, the escalation notification is posted only if the
\* message is an escalation request, or it is a GeneralQA message whose
\* generated reply scored below 0.70, in which case the completion call
\* returned before the notification is posted.
C12_NotificationOnlyWhenWarranted ==
    \A i \in 1..Len(events) :
        events[i].op = "escalate_to_human" =>
            \/ IsEscalationRequest
            \/ /\ IsGeneralQA
               /\ \E j \in 1..(i - 1) :
                     events[j].op = "generate_response" /\ events[j].ok
               /\ confidence /= None
               /\ FloatLess(confidence[1], CONFIDENCE_THRESHOLD)

\* a general question whose reply scored low: notified after generation and
\* answered with the notice
C12_Witness ==
    /\ IsGeneralQA
    /\ Len(Calls("generate_response")) = 1
    /\ Len(Calls("escalate_to_human")) = 1
    /\ step = "stopped"
    /\ outcome = "replied"
    /\ Sends[1].arg = "response_with_notice"

\* the operations that belong to the AI service path
AIServiceOps ==
    {"branch", "get_context", "get_relevant_context", "generate_response",
     "escalate_to_human", "add_message"}

\* C13: a turn routed as order lookup or catalog browse never posts an
\* escalation notification, never invokes retrieval or completion and never
\* reads or writes the session window, whatever else the message contains
\* and whatever the lookup returns.
C13_LookupTurnsStayReadOnly ==
    (events /= <<>> /\ events[1].arg \in {"order_tracking", "catalog_browse"}) =>
        /\ \A i \in 1..Len(events) : events[i].op \notin AIServiceOps
        /\ store[customer_phone] = appended[customer_phone]
        /\ history = <<>>
        /\ context = <<>>
        /\ response = <<>>

\* a browse trigger together with an escalation phrase, nothing found, and
\* the turn answered
C13_Witness ==
    /\ events /= <<>>
    /\ events[1].arg = "catalog_browse"
    /\ HasEscalationPhrase
    /\ step = "stopped"
    /\ outcome = "replied"
    /\ Sends[1].arg = "empty_category"

\* C14 as stated: for every inbound text message the outbound messaging
\* collaborator is invoked exactly once per turn, with the turn's reply or
\* the fallback menu, for every outcome of the turn, failed and timed-out
\* sends included.
C14_SentExactlyOnce ==
    step = "stopped" => Len(Sends) = 1

\* the turn went to the order or the browse handler
IsLookupTurn ==
    events /= <<>> /\ events[1].arg \in {"order_tracking", "catalog_browse"}

\* the try blocks around a reply: handle_webhook's, handle_text_message's
\* and, in a lookup turn, the order or browse handler's
TryBlocks == IF IsLookupTurn THEN 3 ELSE 2

\* C14, amended: a turn invokes the outbound messaging collaborator at least
\* once and at most once more than there are try blocks around the reply;
\* every invocation but the last failed on all its attempts, every
\* invocation after the first carries the fallback menu, and the turn ends
\* replied or fallback exactly when the last invocation succeeded. A turn
\* whose first send succeeds invokes the collaborator exactly once.
C14_OneSendUnlessSendsFail ==
    /\ Len(Sends) <= 1 + TryBlocks
    /\ \A i \in 1..Len(Sends) :
          /\ (i < Len(Sends)) => ~Sends[i].ok
          /\ (i > 1) => Sends[i].arg = "fallback_menu"
    /\ step = "stopped" =>
          /\ Len(Sends) >= 1
          /\ Sends[Len(Sends)].ok <=> outcome \in {"replied", "fallback"}
          /\ Sends[1].ok => Len(Sends) = 1

\* the reply could not be sent and the fallback menu went out instead
C14_Witness ==
    /\ step = "stopped"
    /\ outcome = "fallback"
    /\ Len(Sends) = 2
    /\ Sends[1].arg = "response" /\ ~Sends[1].ok
    /\ Sends[2].arg = "fallback_menu" /\ Sends[2].ok

\* a failed analytics write changes nothing for the customer: the record is
\* followed by the send of the reply (AI service path) or ends the handler
\* after the reply went out (order and browse handlers)
LogFailureHarmless ==
    \A i \in 1..Len(events) :
        events[i].op = "log_message" =>
            IF IsLookupTurn
            THEN i = Len(events) /\ step = "stopped" /\ outcome = "replied"
            ELSE \/ i = Len(events) /\ step = "qa_send"
                 \/ /\ i < Len(events)
                    /\ events[i + 1].op = "send_message"
                    /\ events[i + 1].arg = reply
                    /\ events[i + 1].arg /= "fallback_menu"

\* C15 as stated: in every non-fallback path of a text turn the analytics
\* record is attempted before the reply is sent, and a failure to write it
\* never prevents or replaces the reply.
C15_LoggedBeforeReply ==
    /\ \A i \in 1..Len(events) :
          (events[i].op = "send_message" /\ events[i].arg /= "fallback_menu") =>
              \E j \in 1..(i - 1) : events[j].op = "log_message"
    /\ LogFailureHarmless

\* C15, amended: in the general answer, redirect and escalation paths the
\* analytics record is attempted before the reply is sent; in the order
\* lookup and catalog browse paths it is attempted after the reply has been
\* sent successfully; in every path a failure to write the record never
\* prevents or replaces the reply.
C15_LoggedAroundReply ==
    /\ \A i \in 1..Len(events) :
          (events[i].op = "send_message" /\ events[i].arg /= "fallback_menu") =>
              IF IsLookupTurn
              THEN \A j \in 1..(i - 1) : events[j].op /= "log_message"
              ELSE \E j \in 1..(i - 1) : events[j].op = "log_message"
    /\ \A i \in 1..Len(events) :
          (events[i].op = "log_message" /\ IsLookupTurn) =>
              /\ events[i - 1].op = "send_message"
              /\ events[i - 1].ok
              /\ events[i - 1].arg = reply
    /\ (step = "stopped" /\ outcome = "replied") => Len(Calls("log_message")) = 1
    /\ LogFailureHarmless

\* an order lookup whose reply went out before the analytics write failed
C15_Witness ==
    /\ events /= <<>>
    /\ events[1].arg = "order_tracking"
    /\ step = "stopped"
    /\ outcome = "replied"
    /\ events[Len(events)].op = "log_message"
    /\ ~events[Len(events)].ok
    /\ Sends[1].ok

\* C16: every external call awaited during a turn runs under the resilience
\* wrapper's hard timeout, so every turn eventually terminates, replied or
\* fallback, even when a collaborator never responds.
C16_TurnTerminates == <>(step = "stopped")

\* --------------------------------------- properties of the session store

\* s is the tail of t
IsSuffix(s, t) == Len(s) <= Len(t) /\ SubSeq(t, Len(t) - Len(s) + 1, Len(t)) = s

\* the store-changing steps of one turn's two add_message calls (user, then
\* assistant), each an RPUSH followed by an LTRIM
TurnSteps(task) ==
    << <<"rpush", json_dumps("user", <<"u", task>>)>>, <<"ltrim", <<>> >>,
       <<"rpush", json_dumps("assistant", <<"a", task>>)>>, <<"ltrim", <<>> >> >>

\* the schedules of two concurrent turns: which task makes the next step
Schedules ==
    { s \in [1..8 -> {"1", "2"}] : Cardinality({i \in 1..8 : s[i] = "1"}) = 4 }

\* the list after the first n steps of schedule s, started from list
RECURSIVE RunSchedule(_, _, _)
RunSchedule(list, s, n) ==
    IF n = 0 THEN list
    ELSE LET before == RunSchedule(list, s, n - 1)
             nth == Cardinality({i \in 1..n : s[i] = s[n]})
             op == TurnSteps(s[n])[nth]
         IN  IF op[1] = "rpush" THEN rpush(before, op[2]) ELSE ltrim(before)

\* the turns the two tasks push
PushedByTurns ==
    { TurnSteps(task)[n][2] : task \in {"1", "2"}, n \in {1, 3} }

\* C17 as stated: two turns on the same conversation key running
\* concurrently can interleave their session writes so that an update is
\* lost: from the current window, some interleaving of the two turns ends
\* with a window that misses a turn one of them pushed, although fewer than
\* MAX_MESSAGES pushes followed it.
C17_UpdateCanBeLost ==
    \A k \in Keys :
        \E s \in Schedules :
            LET final == RunSchedule(store[k], s, 8)
            IN  \E m \in PushedByTurns :
                    \A i \in 1..Len(final) : final[i] /= m

\* the turns pushed on key k by the step
PushedByStep(k) ==
    SubSeq(appended'[k], Len(appended[k]) + 1, Len(appended'[k]))

\* C17, amended: concurrent add_message calls on one key are not
\* serialized and their pushes and trims interleave, but no pushed turn is
\* lost: a step other than the clearing or expiry of the key leaves in the
\* list, in push order and at its tail, the last MAX_MESSAGES of the turns
\* held before plus those it pushed, and nothing that was not pushed.
C17_NoPushedTurnLost ==
    [][\A k \in Keys :
          (store'[k] /= <<>> \/ store[k] = <<>>) =>
              LET pushed == store[k] \o PushedByStep(k)
              IN  /\ IsSuffix(LastN(pushed, MAX_MESSAGES), store'[k])
                  /\ IsSuffix(store'[k], pushed)]_vars

\* two add_message calls on one key, both pushed and neither trimmed yet:
\* the window holds both turns
C17_Witness ==
    \E t, u \in Tasks :
        /\ t /= u
        /\ pc[t] = "ltrim"
        /\ pc[u] = "ltrim"
        /\ call[t].key = call[u].key
        /\ LET list == store[call[t].key]
           IN  /\ Len(list) >= 2
               /\ {list[Len(list) - 1], list[Len(list)]} = {call[t].message, call[u].message}

\* --------------------------------- the session window within a text turn

\* every session store call of the turn was answered without an error
StoreReachable ==
    \A i \in 1..Len(events) :
        /\ events[i].op \in {"get_context", "add_message"} => events[i].ok
        /\ events[i].op /= "awaiting"

\* C18: every turn that sends the customer a generated reply, with or
\* without the low-confidence notice, and every escalation-request turn,
\* records a user turn for the inbound message and an assistant turn for the
\* reply in the conversation's session window, provided the session store is
\* reachable.
C18_RepliedTurnsAreRecorded ==
    (/\ step = "stopped"
     /\ outcome = "replied"
     /\ Sends[1].arg \in {"response", "response_with_notice", "escalation_message"}
     /\ StoreReachable) =>
        LET list == store[customer_phone]
        IN  /\ Len(Calls("add_message")) = 2
            /\ Len(list) >= 2
            /\ list[Len(list) - 1] = json_dumps("user", message)
            /\ json_loads(list[Len(list)]).role = "assistant"

\* C19: get_context never raises: it returns the empty sequence when the
\* conversation key does not exist and when the session store call fails,
\* and a turn whose session read failed continues with empty history.
C19_FailedReadGivesEmptyHistory ==
    \A i \in 1..Len(events) :
        events[i].op = "get_context" =>
            /\ (~events[i].ok \/ appended[customer_phone] = <<>>) => history = <<>>
            /\ events[i].ok => history = get_context(appended[customer_phone])
            /\ IF i = Len(events)
               THEN /\ step \in {"relevant_context", "escalate"}
                    /\ depth = 2
                    /\ outcome = "running"
               ELSE events[i + 1].op \in {"get_relevant_context", "escalate_to_human"}

\* a turn on a conversation with stored turns whose session read failed and
\* that answered from empty history
C19_Witness ==
    /\ appended[customer_phone] /= <<>>
    /\ \E i \in 1..Len(events) : events[i].op = "get_context" /\ ~events[i].ok
    /\ history = <<>>
    /\ step = "stopped"
    /\ outcome = "replied"
    /\ Sends[1].arg = "response"

\* C20: add_message never raises: when any of its store calls fails the
\* failure is swallowed, the turn goes on to reply to the customer with the
\* generated answer, and the call has persisted nothing of the turn.
C20_FailedAppendLeavesNoTrace ==
    [][(/\ Len(events') = Len(events) + 1
        /\ events'[Len(events')].op = "add_message"
        /\ ~events'[Len(events')].ok) =>
            /\ step' \in {"add_assistant", "qa_log"}
            /\ step' = "qa_log" => reply' = "response"
            /\ outcome' = "running"
            /\ depth' = depth
            /\ store' = store
            /\ ttl' = ttl]_vars

\* ------------------------------------------------ properties of retrieval

\* C21: get_relevant_context never raises: it returns the empty string both
\* when the search finds no documents and when the embedding or the
\* vector-search collaborator fails on every attempt, and the GeneralQA turn
\* then proceeds to generation with empty context instead of aborting.
C21_RetrievalFailureGivesEmptyContext ==
    \A i \in 1..Len(events) :
        events[i].op = "get_relevant_context" =>
            /\ events[i].arg \in {"no_documents", "DatabaseError", "TimeoutError"} =>
                  context = <<>>
            /\ events[i].ok <=> events[i].arg \in {"no_documents", "documents"}
            /\ IF i = Len(events)
               THEN step = "generate" /\ depth = 2 /\ outcome = "running"
               ELSE events[i + 1].op = "generate_response"

\* a turn whose search failed with the typed error and that was answered
\* from empty context
C21_Witness ==
    /\ \E i \in 1..Len(events) :
          events[i].op = "get_relevant_context" /\ events[i].arg = "DatabaseError"
    /\ context = <<>>
    /\ Len(Calls("generate_response")) = 1
    /\ step = "stopped"
    /\ outcome = "replied"

\* C22: whenever search_knowledge_base fails after the wrapper's retries,
\* whether by an embedding error, a vector-search error or a per-attempt
\* timeout, the error its caller sees is the typed retrieval error
\* DatabaseError, never a raw collaborator exception or a raw timeout.
C22_SearchFailsWithDatabaseError ==
    search_result.result.kind = "raise" =>
        search_result.result.exc.type = "DatabaseError"

\* ----------------------------------- the session store: TTL, order, keys

\* C23: every non-empty session window carries a liveness deadline (its TTL
\* is set, so that it ceases to exist TTL_SECONDS after the last append),
\* after any sequence of add_message calls, including ones in which a store
\* step failed.
C23_NonEmptyWindowHasDeadline ==
    \A k \in Keys :
        (store[k] /= <<>> /\ ~AddInProgress(k)) => ttl[k] = "set"

\* the key the task's add_message call works on
KeyOf(t) == call[t].key

\* C24: each add_message call issues its store operations in the fixed
\* order push of the new turn, trim to the last MAX_MESSAGES, TTL refresh,
\* and a later operation is issued only after the earlier one succeeded:
\* a call whose operation failed issues nothing more.
C24_PushTrimExpireInOrder ==
    [][\A t \in Tasks :
          /\ pc[t] = "idle" => pc'[t] \in {"idle", "rpush"}
          /\ pc[t] = "rpush" => pc'[t] \in {"rpush", "ltrim", "idle"}
          /\ pc[t] = "ltrim" => pc'[t] \in {"ltrim", "expire", "idle"}
          /\ pc[t] = "expire" => pc'[t] \in {"expire", "idle"}
          /\ (pc[t] = "rpush" /\ pc'[t] = "ltrim") =>
                /\ store'[KeyOf(t)] = Append(store[KeyOf(t)], call[t].message)
                /\ ttl' = ttl
          /\ (pc[t] = "ltrim" /\ pc'[t] = "expire") =>
                /\ store'[KeyOf(t)] = LastN(store[KeyOf(t)], MAX_MESSAGES)
                /\ ttl' = ttl
          /\ (pc[t] = "expire" /\ pc'[t] = "idle") =>
                /\ store' = store
                /\ ttl' \in {ttl, [ttl EXCEPT ![KeyOf(t)] =
                                    IF store[KeyOf(t)] /= <<>> THEN "set" ELSE @]}
          /\ (pc[t] \in {"rpush", "ltrim"} /\ pc'[t] = "idle") =>
                /\ store' = store
                /\ ttl' = ttl]_vars

\* a call that has pushed and trimmed and is about to refresh the TTL
C24_Witness ==
    \E t \in Tasks :
        /\ pc[t] = "expire"
        /\ store[KeyOf(t)] /= <<>>
        /\ store[KeyOf(t)][Len(store[KeyOf(t)])] = call[t].message
        /\ Len(store[KeyOf(t)]) = MAX_MESSAGES

\* the decoded turns ever pushed under key k
TurnsAppendedUnder(k) == { json_loads(appended[k][i]) : i \in 1..Len(appended[k]) }

\* C26: session windows are isolated per conversation key: a step of
\* add_message for key A, and a clearing of key A, leave the window and the
\* TTL of every other key unchanged, and get_context for A never returns a
\* turn appended under another key.
C26_KeysAreIsolated ==
    [][/\ \A t \in Tasks :
            (pc[t] /= "idle" /\ pc'[t] /= pc[t]) =>
                \A k \in Keys \ {KeyOf(t)} : store'[k] = store[k] /\ ttl'[k] = ttl[k]
       /\ \A a \in Keys :
            (store[a] /= <<>> /\ store'[a] = <<>>) =>
                \A k \in Keys \ {a} : store'[k] = store[k] /\ ttl'[k] = ttl[k]
       /\ (context_result'.done /\ ~context_result'.failed) =>
            \A i \in 1..Len(context_result'.turns) :
                /\ context_result'.turns[i] \in TurnsAppendedUnder(context_result'.key)
                /\ \A k \in Keys \ {context_result'.key} :
                      context_result'.turns[i] \notin TurnsAppendedUnder(k)]_vars

\* both keys hold turns, and a read of the second key returned its own
C26_Witness ==
    /\ store[FirstKey] /= <<>>
    /\ store[OtherKey] /= <<>>
    /\ context_result.done
    /\ ~context_result.failed
    /\ context_result.key = OtherKey
    /\ context_result.turns /= <<>>

\* ----------------------------------------------- clearing a conversation

\* the i-th clear_context call follows a call on the same key
SecondInARow(i) == i > 1 /\ cleared[i - 1].key = cleared[i].key

\* C25 as stated: clear_context never raises, after one call the window of
\* the conversation is empty, and a second call in a row leaves the store
\* exactly as the first call left it.
C25_ClearEmptiesTheWindow ==
    \A i \in 1..Len(cleared) :
        /\ ~cleared[i].raised
        /\ cleared[i].after.store[cleared[i].key] = <<>>
        /\ SecondInARow(i) => cleared[i].after = cleared[i - 1].after

\* C25, amended: clear_context never raises; after a call whose DEL the
\* store executed the window and its TTL are gone, and a second call in a
\* row then leaves the store exactly as the first call left it, whether its
\* DEL is executed or fails; a call whose DEL fails leaves the store as it
\* found it.
C25_ClearIsIdempotentWhenDeleted ==
    \A i \in 1..Len(cleared) :
        /\ ~cleared[i].raised
        /\ cleared[i].delete = "deleted" =>
              /\ cleared[i].after.store[cleared[i].key] = <<>>
              /\ cleared[i].after.ttl[cleared[i].key] = "none"
              /\ \A k \in Keys \ {cleared[i].key} :
                    /\ cleared[i].after.store[k] = cleared[i].before.store[k]
                    /\ cleared[i].after.ttl[k] = cleared[i].before.ttl[k]
        /\ cleared[i].delete = "raises" => cleared[i].after = cleared[i].before
        /\ (SecondInARow(i) /\ cleared[i - 1].delete = "deleted") =>
              cleared[i].after = cleared[i - 1].after

\* a window of MAX_MESSAGES turns cleared, then cleared again
C25_Witness ==
    /\ Len(cleared) >= 2
    /\ cleared[1].key = cleared[2].key
    /\ Len(cleared[1].before.store[cleared[1].key]) = MAX_MESSAGES
    /\ cleared[1].delete = "deleted"
    /\ cleared[2].delete = "deleted"
    /\ store[cleared[1].key] = <<>>

\* ------------------------------------------------ the escalation event

\* the POSTs made to the webhook for the escalation event e
PostsMade(e) == SelectSeq(e.attempts, LAMBDA made : made /= "not_called")

\* C27: one escalation decision hands its event to the notification
\* collaborator once: the turn calls escalate_to_human once, only on a
\* decision to escalate, the POSTs made for the event never exceed the 2 of
\* one attempt plus one retry, and handing the event over stores nothing:
\* the step leaves the session store as it was.
C27_EventHandedOverOnce ==
    [][(events' /= events /\ events'[Len(events')].op = "escalate_to_human") =>
          /\ Len(Calls("escalate_to_human")) = 0
          /\ decision /= None
          /\ decision[1]
          /\ Len(PostsMade(events'[Len(events')])) <= 2
          /\ step' /= "escalate"
          /\ store' = store
          /\ ttl' = ttl]_vars

\* the first POST got no answer in time, the retry was answered, and the
\* turn went on to its end
C27_Witness ==
    /\ step = "stopped"
    /\ Len(Calls("escalate_to_human")) = 1
    /\ Calls("escalate_to_human")[1].attempts = <<"timeout", "500">>

\* C28: escalate_to_human returns True exactly when a webhook URL is
\* configured and the webhook answered with status 200; it returns False,
\* without raising, when no URL is configured (the POST is then not made),
\* when the status is not 200, and when the POST raises.
C28_TrueExactlyOnStatus200 ==
    \A i \in 1..Len(events) :
        events[i].op = "escalate_to_human" =>
            LET e == events[i]
                last == e.attempts[Len(e.attempts)]
            IN  /\ (e.ok /\ e.arg = "True") <=> (url_configured /\ last = "200")
                /\ ~url_configured => e.ok /\ e.arg = "False" /\ e.attempts = <<"not_called">>
                /\ (url_configured /\ last \in {"500", "ConnectError"}) => e.ok /\ e.arg = "False"
                /\ ~e.ok => last = "timeout"

\* the POST raised and escalate_to_human returned False
C28_Witness ==
    \E i \in 1..Len(events) :
        /\ events[i].op = "escalate_to_human"
        /\ events[i].attempts = <<"ConnectError">>
        /\ events[i].ok
        /\ events[i].arg = "False"

\* ------------------------------------------------- the retry policies

\* the read-only lookups of the retrieval: search and query embedding
ReadOnlyLookups == {"search_knowledge_base", "create_query_embedding"}

\* the calls of the turn made under a decorator that records its attempts
RecordedCalls == SelectSeq(events, LAMBDA e : e.op \in WrappedOperations /\ e.attempts /= <<>>)

\* every recorded call made at most one try more than its retries
TriesWithinPolicy ==
    \A i \in 1..Len(RecordedCalls) :
        Len(RecordedCalls[i].attempts) <= 1 + attempts_of(RecordedCalls[i].op)

\* C29 as stated: every wrapped operation has exactly 1 retry, and the
\* per-attempt timeouts of response generation and of the escalation
\* notification are both strictly longer than those of the read-only lookups.
C29_GenerationAndEscalationWaitLonger ==
    /\ \A op \in WrappedOperations : attempts_of(op) = 1
    /\ TriesWithinPolicy
    /\ \A lookup \in ReadOnlyLookups :
          /\ timeout_of("generate_response") > timeout_of(lookup)
          /\ timeout_of("escalate_to_human") > timeout_of(lookup)

\* C29, amended: every wrapped operation has exactly 1 retry; the
\* per-attempt timeout of the escalation notification is strictly longer
\* than that of the read-only lookups, and response generation has the
\* same per-attempt timeout as the lookups.
C29_OnlyEscalationWaitsLonger ==
    /\ \A op \in WrappedOperations : attempts_of(op) = 1
    /\ TriesWithinPolicy
    /\ \A lookup \in ReadOnlyLookups :
          /\ timeout_of("generate_response") = timeout_of(lookup)
          /\ timeout_of("escalate_to_human") > timeout_of(lookup)

\* a turn in which generation and notification both used their retry
C29_Witness ==
    /\ \E i \in 1..Len(events) :
          events[i].op = "generate_response" /\ Len(events[i].attempts) = 2
    /\ \E i \in 1..Len(events) :
          events[i].op = "escalate_to_human" /\ Len(events[i].attempts) = 2

\* ------------------------------------------------ the completion call

\* the turn called generate_response
Generated == Len(Calls("generate_response")) > 0

\* the context message of a message list, if it has one
ContextMessages(list) ==
    SelectSeq(list, LAMBDA m : m.role = "system" /\ m.content /= SYSTEM_PROMPT)

\* C30: one GeneralQA turn invokes the completion through the wrapper once:
\* exactly 1 completion call when the first attempt succeeds and at most 2
\* when attempts fail; the message list passed is the system instruction,
\* the context message (present exactly when the context is non-empty),
\* the history window, then the new user message, never more than
\* MAX_MESSAGES + 3 entries.
C30_OneBoundedCompletionCall ==
    /\ Len(Calls("generate_response")) <= 1
    /\ Generated =>
          LET e == Calls("generate_response")[1]
              n == Len(messages)
          IN  /\ IsGeneralQA
              /\ Len(e.attempts) \in 1..2
              /\ e.attempts[1] = "return" => Len(e.attempts) = 1
              /\ n <= MAX_MESSAGES + 3
              /\ messages[1] = [role |-> "system", content |-> SYSTEM_PROMPT]
              /\ messages[n] = [role |-> "user", content |-> message]
              /\ Len(ContextMessages(messages)) = IF context /= <<>> THEN 1 ELSE 0
              /\ context /= <<>> =>
                    messages[2] = [role |-> "system",
                                   content |-> <<"Relevant information:\n">> \o context]
              /\ Len(history) <= MAX_MESSAGES
              /\ SubSeq(messages, n - Len(history), n - 1) = history
              /\ n = 2 + Len(ContextMessages(messages)) + Len(history)
    /\ ~Generated => messages = <<>>

\* a full window of history and a context: the longest list, and the
\* completion answered at the second attempt
C30_Witness ==
    /\ Generated
    /\ Len(messages) = MAX_MESSAGES + 3
    /\ Calls("generate_response")[1].attempts = <<"raise", "return">>

\* ------------------------------------- the window under reads and races

\* C31: get_context returns at most MAX_MESSAGES turns, the most recent
\* ones in order, in every state of the store, including when the stored
\* list is longer than MAX_MESSAGES (between a push and its trim, or after
\* a trim failed).
C31_ReadReturnsLastTen ==
    [][(context_result' /= context_result /\ ~context_result'.failed) =>
          LET r == context_result'
              recent == LastN(store[r.key], MAX_MESSAGES)
          IN  /\ Len(r.turns) <= MAX_MESSAGES
              /\ Len(r.turns) = Len(recent)
              /\ \A i \in 1..Len(recent) : r.turns[i] = json_loads(recent[i])]_vars

\* a read that returned MAX_MESSAGES turns of a list that holds more
C31_Witness ==
    /\ context_result.done
    /\ ~context_result.failed
    /\ Len(context_result.turns) = MAX_MESSAGES
    /\ Len(store[context_result.key]) > MAX_MESSAGES
    /\ context_result.turns[MAX_MESSAGES] =
          json_loads(store[context_result.key][Len(store[context_result.key])])

\* the steps of a schedule whose store call raises: none, or one of them
FailureSets == {{}} \cup { {i} : i \in 1..8 }

\* step n of schedule s: the task's how-manieth step it is
NthOf(s, n) == Cardinality({i \in 1..n : s[i] = s[n]})

\* the position in schedule s of the step before step n of the same task
PreviousOf(s, n) == CHOOSE i \in 1..(n - 1) : s[i] = s[n] /\ NthOf(s, i) = NthOf(s, n) - 1

\* step n of schedule s changes the list: its store call does not raise
\* and, for a trim, the push of the same add_message did not raise
Executed(s, n, failed) ==
    /\ n \notin failed
    /\ TurnSteps(s[n])[NthOf(s, n)][1] = "ltrim" => PreviousOf(s, n) \notin failed

\* the list after the first n steps of schedule s in which the store calls
\* of the steps in failed raise
RECURSIVE RunScheduleFailing(_, _, _, _)
RunScheduleFailing(list, s, n, failed) ==
    IF n = 0 THEN list
    ELSE LET before == RunScheduleFailing(list, s, n - 1, failed)
             op == TurnSteps(s[n])[NthOf(s, n)]
         IN  IF ~Executed(s, n, failed) THEN before
             ELSE IF op[1] = "rpush" THEN rpush(before, op[2]) ELSE ltrim(before)

\* the turns pushed successfully in the first n steps, in push order
RECURSIVE PushedInOrder(_, _, _)
PushedInOrder(s, n, failed) ==
    IF n = 0 THEN <<>>
    ELSE LET op == TurnSteps(s[n])[NthOf(s, n)]
         IN  IF op[1] = "rpush" /\ Executed(s, n, failed)
             THEN Append(PushedInOrder(s, n - 1, failed), op[2])
             ELSE PushedInOrder(s, n - 1, failed)

\* C32: appends under concurrency lose nothing: after two concurrent turns
\* for one key have finished, whichever way their pushes and trims
\* interleaved and whichever store call raised, the window equals the last
\* MAX_MESSAGES elements of the window before followed by the successfully
\* pushed turns in their push order (each turn's user message before its
\* assistant reply).
C32_WindowIsLastTenOfPushed ==
    \A k \in Keys :
        ~AddInProgress(k) =>
            \A s \in Schedules, failed \in FailureSets :
                RunScheduleFailing(store[k], s, 8, failed) =
                    LastN(store[k] \o PushedInOrder(s, 8, failed), MAX_MESSAGES)

\* C33: add_message does not roll back: when the push succeeded and the
\* trim or the TTL refresh then fails, the error is swallowed and the step
\* leaves the stored list and the TTLs as they were: the turn stays
\* appended, untrimmed after a failed trim, with the TTL the key had before
\* (none for a new key).
C33_NoRollBack ==
    [][\A t \in Tasks :
          (/\ pc[t] \in {"ltrim", "expire"}
           /\ pc'[t] = "idle"
           /\ undisturbed'[KeyOf(t)] = FALSE
           /\ pc[t] = "expire" => ttl' = ttl) =>
              /\ store' = store
              /\ ttl' = ttl
              /\ appended' = appended]_vars

\* after add_message calls that have returned, one window is left with
\* more than MAX_MESSAGES turns and a new key holds a turn and has no TTL
C33_Witness ==
    /\ \A t \in Tasks : pc[t] = "idle"
    /\ Len(store[FirstKey]) = MAX_MESSAGES + 1
    /\ store[OtherKey] /= <<>>
    /\ ttl[OtherKey] = "none"

\* --------------------------------------- the low-confidence escalation

\* the turn is over: replied, fell back, or raised
TurnEnded == step = "stopped"

\* the turn asked the knowledge base for context
Retrieved == Len(Calls("get_relevant_context")) > 0

\* generate_response returned a reply
GeneratedReply ==
    \E i \in 1..Len(events) : events[i].op = "generate_response" /\ events[i].ok

\* the turn called escalate_to_human
Escalated == Len(Calls("escalate_to_human")) > 0

\* the turn made a POST to the escalation webhook
NotificationPosted ==
    \E i \in 1..Len(events) :
        events[i].op = "escalate_to_human" /\ PostsMade(events[i]) /= <<>>

\* C34 as stated: in a GeneralQA turn the low-confidence escalation fires
\* exactly when the retrieved context is empty or the generated reply
\* hedges; every turn whose retrieval failed or found nothing posts a
\* human-escalation notification, and a generated reply is delivered
\* without escalation only when the context was non-empty and the reply
\* did not hedge.
C34_EmptyContextAlwaysNotifies ==
    (TurnEnded /\ IsGeneralQA /\ Retrieved) =>
        /\ GeneratedReply => (Escalated <=> (context = <<>> \/ Hedges))
        /\ context = <<>> => NotificationPosted
        /\ (GeneratedReply /\ ~Escalated) => (context /= <<>> /\ ~Hedges)

\* C34, amended: in a GeneralQA turn whose reply was generated, the
\* low-confidence escalation fires exactly when the retrieved context is
\* empty or the reply hedges; every such turn whose retrieval failed or
\* found nothing calls the escalation notification, which posts when a
\* webhook URL is configured, and a generated reply is delivered without
\* escalation only when the context was non-empty and the reply did not
\* hedge. A turn whose generation failed escalates nothing.
C34_EscalatesWhenGeneratedWithoutContext ==
    (TurnEnded /\ IsGeneralQA /\ Retrieved) =>
        /\ GeneratedReply => (Escalated <=> (context = <<>> \/ Hedges))
        /\ (context = <<>> /\ GeneratedReply) =>
              /\ Escalated
              /\ url_configured => NotificationPosted
        /\ (GeneratedReply /\ ~Escalated) => (context /= <<>> /\ ~Hedges)
        /\ ~GeneratedReply => ~Escalated

\* the retrieval failed, the reply was generated without a hedge, and
\* the notification was posted and answered
C34_Witness ==
    /\ TurnEnded
    /\ IsGeneralQA
    /\ Retrieved
    /\ Calls("get_relevant_context")[1].arg = "TimeoutError"
    /\ context = <<>>
    /\ GeneratedReply
    /\ ~Hedges
    /\ Escalated
    /\ Calls("escalate_to_human")[1].attempts = <<"200">>

\* ------------------------------------------------- the nested wrappers

\* the search was made
Searched == search_result /= NoSearch

\* every request to the embedding collaborator fails: raises or times out
EmbeddingFailsEveryTime ==
    \A n \in 1..2, m \in 1..2 : search_input.embedding[n][m].kind /= "return"

\* every request to the embedding collaborator raises
EmbeddingRaisesEveryTime ==
    \A n \in 1..2, m \in 1..2 : search_input.embedding[n][m].kind = "raise"

C36_RetryOnlyAfterTimeout ==
    \A i \in 1..Len(events) :
        events[i].op = "escalate_to_human" =>
            LET e == events[i]
            IN  /\ e.attempts[1] \in {"500", "ConnectError"} =>
                      (Len(e.attempts) = 1 /\ e.ok /\ e.arg = "False")
                /\ Len(e.attempts) = 2 => e.attempts[1] = "timeout"
                /\ e.attempts[1] = "timeout" => Len(e.attempts) = 2

\* the webhook answered 500: one attempt, False returned
C36_Witness ==
    \E i \in 1..Len(events) :
        /\ events[i].op = "escalate_to_human"
        /\ events[i].attempts = <<"500">>
        /\ events[i].arg = "False"

\* escalate_to_human returned, True or False, in the turn
EscalationReturned ==
    \E i \in 1..Len(events) : events[i].op = "escalate_to_human" /\ events[i].ok

\* the notification was delivered: escalate_to_human returned True
NotificationDelivered ==
    \E i \in 1..Len(events) :
        events[i].op = "escalate_to_human" /\ events[i].ok /\ events[i].arg = "True"

\* C37: in a low-confidence GeneralQA turn the reply sent to the customer
\* carries the notice whenever should_escalate returned true and
\* escalate_to_human returned, whatever boolean it returned: also when the
\* notification was not delivered (False, an unconfigured webhook included).
C37_NoticeWhateverTheResult ==
    (IsGeneralQA /\ EscalationReturned) =>
        /\ decision /= None
        /\ decision[1]
        /\ reply = "response_with_notice"
        /\ \A i \in 1..Len(Sends) : Sends[i].arg \in {"response_with_notice", "fallback_menu"}
        /\ (TurnEnded /\ outcome = "replied") =>
              (Sends[1].arg = "response_with_notice" /\ Sends[1].ok)

\* no webhook URL, nothing posted, and the reply went out with the notice
C37_Witness ==
    /\ IsGeneralQA
    /\ EscalationReturned
    /\ ~NotificationDelivered
    /\ ~url_configured
    /\ TurnEnded
    /\ outcome = "replied"
    /\ Sends[1].arg = "response_with_notice"

\* the collaborators the redirect path leaves alone: session store,
\* retrieval, completion, notification
RedirectAvoids ==
    {"get_context", "add_message", "get_relevant_context", "generate_response",
     "escalate_to_human"}

\* the message reached process_text_message
OnGeneralPath == \E i \in 1..Len(events) : events[i].op = "branch"

\* C38: a message that reaches the general path, contains no escalation
\* phrase and contains a non-clothing keyword is answered with the fixed
\* redirect text without invoking the session store, the retrieval, the
\* completion or the notification; an escalation phrase takes precedence
\* over the non-clothing check.
C38_RedirectInvokesNothing ==
    OnGeneralPath =>
        /\ (~HasEscalationPhrase /\ ~is_clothing_related(message)) =>
              /\ Calls("branch")[1].arg = "redirect"
              /\ \A i \in 1..Len(events) : events[i].op \notin RedirectAvoids
              /\ store[customer_phone] = appended[customer_phone]
              /\ reply = "redirect_message"
              /\ \A i \in 1..Len(Sends) : Sends[i].arg \in {"redirect_message", "fallback_menu"}
              /\ (TurnEnded /\ outcome = "replied") => Sends[1].arg = "redirect_message"
        /\ (HasEscalationPhrase /\ ~is_clothing_related(message)) =>
              /\ Calls("branch")[1].arg = "escalation_request"
              /\ reply /= "redirect_message"

\* "weather" answered with the redirect text
C38_Witness ==
    /\ OnGeneralPath
    /\ ~HasEscalationPhrase
    /\ ~is_clothing_related(message)
    /\ TurnEnded
    /\ outcome = "replied"
    /\ Sends[1].arg = "redirect_message"

\* ------------------------------------------- appends, send and fallback

\* positions in events of the add_message call for role
AppendsOf(role) ==
    { i \in 1..Len(events) : events[i].op = "add_message" /\ events[i].arg = role }

\* both add_message calls of the turn were made and raised nothing inside
BothAppended ==
    /\ \E i \in AppendsOf("user") : events[i].ok
    /\ \E i \in AppendsOf("assistant") : events[i].ok

\* the send of the generated reply failed on every attempt
ReplySendFailed == Sends /= <<>> /\ Sends[1].arg = "response" /\ ~Sends[1].ok

CompletionFailed ==
    \E i \in 1..Len(events) : events[i].op = "generate_response" /\ ~events[i].ok

\* C40: a turn that ends in Fallback because the completion collaborator
\* failed on every attempt leaves the session window unchanged, writes no
\* analytics record and posts no escalation notification.
C40_FallbackLeavesNoTrace ==
    CompletionFailed =>
        /\ store = appended
        /\ Calls("add_message") = <<>>
        /\ Calls("log_message") = <<>>
        /\ Calls("escalate_to_human") = <<>>
        /\ \A i \in 1..Len(Sends) : Sends[i].arg = "fallback_menu"
        /\ TurnEnded => outcome \in {"fallback", "raised"}

\* the completion raised twice and the turn ended with the fallback menu
C40_Witness ==
    /\ CompletionFailed
    /\ Calls("generate_response")[1].attempts = <<"raise", "raise">>
    /\ TurnEnded
    /\ outcome = "fallback"
    /\ Len(store[customer_phone]) = MAX_MESSAGES

====
